---- MODULE Spec2Model ----
(***************************************************************************)
(* Checkers engine (checkers/board.py), the game loop (checkers/game.py)   *)
(* and the agents (bots/*.py) as a state machine.                          *)
(*                                                                         *)
(* A Piece is the record [player, king, position]; the grid is a function  *)
(* from <<row, col>> to a Piece or None; a Move is the record              *)
(* [from, to, captured] for the Python list [from, to, captured]; a dict   *)
(* is the sequence of its <<key, value>> items in insertion order.         *)
(***************************************************************************)
EXTENDS Integers, Sequences, FiniteSets, TLC

VARIABLES
    BOARD_DIMENSION,     \* constants.BOARD_DIMENSION, fixed by each specification's Init
    board,               \* Board.board of the authoritative board
    num_white_pieces,    \* Board.num_white_pieces
    num_black_pieces,    \* Board.num_black_pieces
    num_white_kings,     \* Board.num_white_kings
    num_black_kings,     \* Board.num_black_kings
    moves,               \* Board.moves, the history
    current_turn,        \* Game.simulate: current_turn
    winner,              \* Game.simulate: winner
    call,                \* the last call made on the board: what it was given and how it ended
    mctsbot,             \* the MCTSBot of the game: player, rollouts and tree (children, N, Q)
    search,              \* the MCTSBot.select_move call in progress and its position
    time_check,          \* bots/mctsbot.py: the module's global time_check
    timer                \* the threading.Timer objects started by MCTS._simulate

botvars == <<mctsbot, search, time_check, timer>>

vars == <<BOARD_DIMENSION, board, num_white_pieces, num_black_pieces,
          num_white_kings, num_black_kings, moves, current_turn, winner, call,
          mctsbot, search, time_check, timer>>

(***************************************************************************)
(* Bounds and configuration                                                *)
(***************************************************************************)
\* board dimensions of the games played from the standard start
GameDims == {4, 5}
\* board dimensions of the boards built from explicit grids
GridDims == {5}
\* board dimensions of the games in which make_move is handed arbitrary moves,
\* of the histories handed to the draw rules and of the games the agents search
SmallDims == {4}
\* board dimensions of the openings played from the standard start
StartDims == {4, 5, 8}
\* constants.ROWS_OF_PIECES: 3 on the 8x8 board of the repository, and one row on the
\* smaller boards
ROWS_OF_PIECES == IF BOARD_DIMENSION = 8 THEN 3 ELSE 1
\* constants.MAX_MOVES_WITHOUT_CAPTURE as configured for the model's games
MAX_MOVES_WITHOUT_CAPTURE == 6

Max(a, b) == IF a >= b THEN a ELSE b
Min(a, b) == IF a <= b THEN a ELSE b

(***************************************************************************)
(* checkers/player.py, checkers/piece.py                                   *)
(***************************************************************************)
white == "white"
black == "black"
Player == {white, black}
other(p) == IF p = white THEN black ELSE white

\* the empty cell (Python None); a record so that it compares with pieces
None == [player |-> "None", king |-> FALSE, position |-> <<-1, -1>>]
Piece(pos, p) == [player |-> p, king |-> FALSE, position |-> pos]
\* a piece left as it is where it would be crowned
not_crowned(piece) == piece

make_king(piece) == [piece EXCEPT !.king = TRUE]

Rows == 0 .. BOARD_DIMENSION - 1
Pos == Rows \X Rows
\* the cells in the order of the nested row/col loops
CellSeq == [i \in 1 .. BOARD_DIMENSION * BOARD_DIMENSION |->
              <<(i - 1) \div BOARD_DIMENSION, (i - 1) % BOARD_DIMENSION>>]

\* range(start, stop, step) still yields r
InRange(r, stop, step) == IF step = -1 THEN r > stop ELSE r < stop

(***************************************************************************)
(* dicts in insertion order                                                *)
(***************************************************************************)
DictHas(d, k) == \E i \in 1 .. Len(d) : d[i][1] = k
DictSet(d, k, v) ==
    IF DictHas(d, k)
    THEN [i \in 1 .. Len(d) |-> IF d[i][1] = k THEN <<k, v>> ELSE d[i]]
    ELSE Append(d, <<k, v>>)
RECURSIVE DictUpdate(_, _)
DictUpdate(d, e) ==
    IF e = <<>> THEN d
    ELSE DictUpdate(DictSet(d, e[1][1], e[1][2]), Tail(e))

(***************************************************************************)
(* Board: move generation                                                  *)
(***************************************************************************)
get_piece(b, position) == b[position]

get_all_pieces(b, player) ==
    SelectSeq([i \in 1 .. Len(CellSeq) |-> get_piece(b, CellSeq[i])],
              LAMBDA piece : piece # None /\ piece.player = player)

RECURSIVE TraverseLeftLoop(_, _, _, _, _, _, _, _)
RECURSIVE TraverseRightLoop(_, _, _, _, _, _, _, _)

_traverse_left(b, start, stop, step, player, left, skipped) ==
    TraverseLeftLoop(b, start, stop, step, player, left, skipped, <<>>)

_traverse_right(b, start, stop, step, player, right, skipped) ==
    TraverseRightLoop(b, start, stop, step, player, right, skipped, <<>>)

\* one iteration of the for loop of _traverse_left at row r, with the loop's `left` and `last`
TraverseLeftLoop(b, r, stop, step, player, left, skipped, last) ==
    IF ~InRange(r, stop, step) THEN <<>>
    ELSE IF left < 0 THEN <<>>
    ELSE LET current == b[<<r, left>>] IN
        IF current = None THEN
            IF skipped # <<>> /\ last = <<>> THEN <<>>
            ELSE LET here == << <<<<r, left>>,
                                  IF skipped # <<>> THEN last \o skipped ELSE last>> >>
                     row == IF step = -1 THEN Max(r - 3, 0)
                                         ELSE Min(r + 3, BOARD_DIMENSION)
                 IN IF last # <<>>
                    THEN DictUpdate(
                           DictUpdate(here,
                             _traverse_left(b, r + step, row, step, player, left - 1, last)),
                           _traverse_right(b, r + step, row, step, player, left + 1, last))
                    ELSE here
        ELSE IF current.player = player THEN <<>>
        ELSE TraverseLeftLoop(b, r + step, stop, step, player, left - 1, skipped, <<current>>)

\* one iteration of the for loop of _traverse_right at row r
TraverseRightLoop(b, r, stop, step, player, right, skipped, last) ==
    IF ~InRange(r, stop, step) THEN <<>>
    ELSE IF right >= BOARD_DIMENSION THEN <<>>
    ELSE LET current == b[<<r, right>>] IN
        IF current = None THEN
            IF skipped # <<>> /\ last = <<>> THEN <<>>
            ELSE LET here == << <<<<r, right>>,
                                  IF skipped # <<>> THEN last \o skipped ELSE last>> >>
                     row == IF step = -1 THEN Max(r - 3, 0)
                                         ELSE Min(r + 3, BOARD_DIMENSION)
                 IN IF last # <<>>
                    THEN DictUpdate(
                           DictUpdate(here,
                             _traverse_left(b, r + step, row, step, player, right - 1, last)),
                           _traverse_right(b, r + step, row, step, player, right + 1, last))
                    ELSE here
        ELSE IF current.player = player THEN <<>>
        ELSE TraverseRightLoop(b, r + step, stop, step, player, right + 1, skipped, <<current>>)

\* a move generator that lets every piece, kings as well, go towards the opponent's
\* edge only
forward_only(b, piece) ==
    LET left == piece.position[2] - 1
        right == piece.position[2] + 1
        row == piece.position[1]
    IN IF piece.player = white
       THEN DictUpdate(
              _traverse_left(b, row - 1, Max(row - 3, -1), -1, piece.player, left, <<>>),
              _traverse_right(b, row - 1, Max(row - 3, -1), -1, piece.player, right, <<>>))
       ELSE DictUpdate(
              _traverse_left(b, row + 1, Min(row + 3, BOARD_DIMENSION), 1,
                             piece.player, left, <<>>),
              _traverse_right(b, row + 1, Min(row + 3, BOARD_DIMENSION), 1,
                              piece.player, right, <<>>))

_get_valid_moves(b, piece) ==
    LET left == piece.position[2] - 1
        right == piece.position[2] + 1
        row == piece.position[1]
        up == IF piece.player = white \/ piece.king
              THEN DictUpdate(
                     _traverse_left(b, row - 1, Max(row - 3, -1), -1, piece.player, left, <<>>),
                     _traverse_right(b, row - 1, Max(row - 3, -1), -1, piece.player, right, <<>>))
              ELSE <<>>
        down == IF piece.player = black \/ piece.king
                THEN DictUpdate(
                       _traverse_left(b, row + 1, Min(row + 3, BOARD_DIMENSION), 1,
                                      piece.player, left, <<>>),
                       _traverse_right(b, row + 1, Min(row + 3, BOARD_DIMENSION), 1,
                                       piece.player, right, <<>>))
                ELSE <<>>
    IN DictUpdate(up, down)

\* the column tests that end the for loops of _traverse_left and _traverse_right
off_left(left) == left < 0
\* a column test that ends no loop
no_edge(right) == FALSE
off_right(right) == right >= BOARD_DIMENSION

\* the index pairs <<r, col>> at which the for loop of _traverse_left reads
\* self.board[r][col], those of the calls it makes included; the scan is followed up
\* to its first index outside the grid
RECURSIVE TraverseLeftReads(_, _, _, _, _, _, _, _)
RECURSIVE TraverseRightReads(_, _, _, _, _, _, _, _)
TraverseLeftReads(b, r, stop, step, player, left, skipped, last) ==
    IF ~InRange(r, stop, step) \/ off_left(left) THEN {}
    ELSE IF <<r, left>> \notin Pos THEN {<<r, left>>}
    ELSE LET current == b[<<r, left>>] IN
        IF current = None THEN
            IF last = <<>> THEN {<<r, left>>}
            ELSE LET row == IF step = -1 THEN Max(r - 3, 0)
                                         ELSE Min(r + 3, BOARD_DIMENSION)
                 IN {<<r, left>>}
                    \cup TraverseLeftReads(b, r + step, row, step, player, left - 1, last, <<>>)
                    \cup TraverseRightReads(b, r + step, row, step, player, left + 1, last, <<>>)
        ELSE IF current.player = player THEN {<<r, left>>}
        ELSE {<<r, left>>}
             \cup TraverseLeftReads(b, r + step, stop, step, player, left - 1, skipped,
                                    <<current>>)

TraverseRightReads(b, r, stop, step, player, right, skipped, last) ==
    IF ~InRange(r, stop, step) \/ off_right(right) THEN {}
    ELSE IF <<r, right>> \notin Pos THEN {<<r, right>>}
    ELSE LET current == b[<<r, right>>] IN
        IF current = None THEN
            IF last = <<>> THEN {<<r, right>>}
            ELSE LET row == IF step = -1 THEN Max(r - 3, 0)
                                         ELSE Min(r + 3, BOARD_DIMENSION)
                 IN {<<r, right>>}
                    \cup TraverseLeftReads(b, r + step, row, step, player, right - 1, last, <<>>)
                    \cup TraverseRightReads(b, r + step, row, step, player, right + 1, last, <<>>)
        ELSE IF current.player = player THEN {<<r, right>>}
        ELSE {<<r, right>>}
             \cup TraverseRightReads(b, r + step, stop, step, player, right + 1, skipped,
                                     <<current>>)

\* the index pairs read by _get_valid_moves(piece)
ValidMovesReads(b, piece) ==
    LET left == piece.position[2] - 1
        right == piece.position[2] + 1
        row == piece.position[1]
        up == IF piece.player = white \/ piece.king
              THEN TraverseLeftReads(b, row - 1, Max(row - 3, -1), -1, piece.player, left,
                                     <<>>, <<>>)
                   \cup TraverseRightReads(b, row - 1, Max(row - 3, -1), -1, piece.player,
                                           right, <<>>, <<>>)
              ELSE {}
        down == IF piece.player = black \/ piece.king
                THEN TraverseLeftReads(b, row + 1, Min(row + 3, BOARD_DIMENSION), 1,
                                       piece.player, left, <<>>, <<>>)
                     \cup TraverseRightReads(b, row + 1, Min(row + 3, BOARD_DIMENSION), 1,
                                             piece.player, right, <<>>, <<>>)
                ELSE {}
    IN up \cup down

Move(from, to, captured) == [from |-> from, to |-> to, captured |-> captured]
\* Python's None where a move is expected
NoMove == Move(<<-1, -1>>, <<-1, -1>>, <<>>)

RECURSIVE Flatten(_)
Flatten(ss) == IF ss = <<>> THEN <<>> ELSE ss[1] \o Flatten(Tail(ss))

\* moves that list every captured piece twice
doubled_captures(piece, valid_moves) ==
    [i \in 1 .. Len(valid_moves) |->
        Move(piece.position, valid_moves[i][1], valid_moves[i][2] \o valid_moves[i][2])]

\* the moves appended for one piece: one per item of its valid_moves dict
PieceMoves(piece, valid_moves) ==
    [i \in 1 .. Len(valid_moves) |-> Move(piece.position, valid_moves[i][1], valid_moves[i][2])]

\* the for loop of get_all_valid_moves over `pieces`
AllPieceMoves(b, pieces) ==
    Flatten([i \in 1 .. Len(pieces) |-> PieceMoves(pieces[i], _get_valid_moves(b, pieces[i]))])

\* the list `moves` of get_all_valid_moves before the capture filter
generated_moves(b, player) == AllPieceMoves(b, get_all_pieces(b, player))

\* every generated move returned, capture or not
no_filter(generated) == generated

\* the end of get_all_valid_moves: only the capturing moves when there is one
capture_filter(generated) ==
    IF \E i \in 1 .. Len(generated) : Len(generated[i].captured) > 0
    THEN SelectSeq(generated, LAMBDA move : Len(move.captured) # 0)
    ELSE generated

get_all_valid_moves(b, player) == capture_filter(generated_moves(b, player))

(***************************************************************************)
(* Board: construction, counters, draw rules, make_move, has_winner        *)
(* A Board object is the record of its six attributes, and of `ref`, which *)
(* names the grid object that self.board is: "game" for the grid of the    *)
(* authoritative board of the game, "own" for a grid nothing else holds.   *)
(* A method that assigns into self.board writes the grid that `ref` names. *)
(***************************************************************************)
BoardObj(b, nbp, nbk, nwp, nwk, ms, ref) ==
    [board |-> b, num_black_pieces |-> nbp, num_black_kings |-> nbk,
     num_white_pieces |-> nwp, num_white_kings |-> nwk, moves |-> ms, ref |-> ref]

\* a grid filled on the cells with (row + col) even
even_cells_board ==
    [pos \in Pos |->
        IF pos[1] < ROWS_OF_PIECES
        THEN IF (pos[2] + pos[1]) % 2 = 0 THEN Piece(pos, black) ELSE None
        ELSE IF pos[1] >= BOARD_DIMENSION - ROWS_OF_PIECES
        THEN IF (pos[2] + pos[1]) % 2 = 0 THEN Piece(pos, white) ELSE None
        ELSE None]

_initiate_board ==
    [pos \in Pos |->
        IF pos[1] < ROWS_OF_PIECES
        THEN IF (pos[2] + pos[1]) % 2 # 0 THEN Piece(pos, black) ELSE None
        ELSE IF pos[1] >= BOARD_DIMENSION - ROWS_OF_PIECES
        THEN IF (pos[2] + pos[1]) % 2 # 0 THEN Piece(pos, white) ELSE None
        ELSE None]

\* Board(): the counters are incremented once per piece placed by _initiate_board
NewBoard ==
    LET grid == _initiate_board
    IN BoardObj(grid, Len(get_all_pieces(grid, black)), 0,
                Len(get_all_pieces(grid, white)), 0, <<>>, "own")

\* Board(grid): the piece counters are recounted, the king counters stay 0
BoardFrom(grid, ref) ==
    BoardObj(grid, Len(get_all_pieces(grid, black)), 0,
             Len(get_all_pieces(grid, white)), 0, <<>>, ref)

\* an assignment in place of a copy: the same object under a second name
SameObject(B) == B

\* a copy whose pieces are built anew, none of them a king
uncrowned_copy(B) ==
    [B EXCEPT !.board = [pos \in DOMAIN @ |->
                            IF @[pos] = None THEN None ELSE [@[pos] EXCEPT !.king = FALSE]],
              !.ref = "own"]

\* Board.__deepcopy__ and copy.deepcopy of a grid: equal content in a new object
deepcopy(B) == [B EXCEPT !.ref = "own"]

last_move(B) == IF Len(B.moves) > 0 THEN B.moves[Len(B.moves)] ELSE NoMove

\* Python's self.moves[-k] for k >= 1, and self.moves[-0] = self.moves[0]
MovesAt(ms, k) == IF k = 0 THEN ms[1] ELSE ms[Len(ms) + 1 - k]

\* a repetition rule that compares two repeats of the 4-move window, not three
two_repeats(B) ==
    LET m(k) == MovesAt(B.moves, k)
        same(a, c) == m(a).from = m(c).from /\ m(a).to = m(c).to
    IN Len(B.moves) >= 12 /\ same(1, 5) /\ same(2, 6) /\ same(3, 7) /\ same(4, 8)

repetition_happened(B) ==
    LET m(k) == MovesAt(B.moves, k)
        same(a, c, e) == /\ m(a).from = m(c).from /\ m(c).from = m(e).from
                         /\ m(a).to = m(c).to /\ m(c).to = m(e).to
    IN Len(B.moves) >= 12 /\ same(1, 5, 9) /\ same(2, 6, 10)
                          /\ same(3, 7, 11) /\ same(4, 8, 12)

\* a rule that never calls a game passive
never_passive(B) == FALSE

passive_game(B) ==
    /\ Len(B.moves) >= MAX_MOVES_WITHOUT_CAPTURE
    /\ \A move \in 0 .. MAX_MOVES_WITHOUT_CAPTURE - 1 :
          Len(MovesAt(B.moves, move).captured) = 0

\* the cells of `pieces` cleared with every counter kept as it was
RECURSIVE clear_cells(_, _)
clear_cells(B, pieces) ==
    IF pieces = <<>> THEN B
    ELSE clear_cells([B EXCEPT !.board[pieces[1].position] = None], Tail(pieces))

RECURSIVE remove(_, _)
remove(B, pieces) ==
    IF pieces = <<>> THEN B
    ELSE LET piece == pieces[1]
             cleared == [B EXCEPT !.board[piece.position] = None]
             counted ==
                 IF piece.player = white
                 THEN [cleared EXCEPT
                         !.num_white_pieces = @ - 1,
                         !.num_white_kings = IF piece.king THEN @ - 1 ELSE @]
                 ELSE IF piece.player = black
                 THEN [cleared EXCEPT
                         !.num_black_pieces = @ - 1,
                         !.num_black_kings = IF piece.king THEN @ - 1 ELSE @]
                 ELSE cleared
         IN remove(counted, Tail(pieces))

\* make_move raises (AttributeError on None.position) before any assignment
make_move_raises(B, move) == get_piece(B.board, move.from) = None

\* a make_move that puts the piece on its new cell with its position field as it was
\* and leaves the captured pieces where they are
stale_position(B, move) ==
    [B EXCEPT !.board = [[@ EXCEPT ![move.from] = None]
                            EXCEPT ![move.to] = get_piece(B.board, move.from)],
              !.moves = Append(@, move)]

make_move(B, move) ==
    LET piece == get_piece(B.board, move.from)
        moved == [piece EXCEPT !.position = move.to]
        placed == [B EXCEPT !.board = [[@ EXCEPT ![piece.position] = None]
                                          EXCEPT ![move.to] = moved]]
        removed == remove(placed, move.captured)
        \* piece.make_king() acts on the moved object, which remove may have taken off the grid
        crown(g) == [g EXCEPT ![move.to] = IF @ = moved THEN make_king(moved) ELSE @]
        promoted ==
            IF moved.player = black /\ moved.position[1] = BOARD_DIMENSION - 1 /\ ~moved.king
            THEN [removed EXCEPT !.board = crown(@), !.num_black_kings = @ + 1]
            ELSE IF moved.player = white /\ moved.position[1] = 0 /\ ~moved.king
            THEN [removed EXCEPT !.board = crown(@), !.num_white_kings = @ + 1]
            ELSE removed
    IN [promoted EXCEPT !.moves = Append(@, move)]

\* a winner decided by the piece counters alone
winner_by_pieces(B) ==
    IF B.num_black_pieces = 0 THEN white
    ELSE IF B.num_white_pieces = 0 THEN black
    ELSE IF repetition_happened(B) \/ passive_game(B) THEN "Tie"
    ELSE "None"

has_winner(B) ==
    IF B.num_black_pieces = 0 \/ Len(get_all_valid_moves(B.board, black)) = 0
    THEN white
    ELSE IF B.num_white_pieces = 0 \/ Len(get_all_valid_moves(B.board, white)) = 0
    THEN black
    ELSE IF repetition_happened(B) \/ passive_game(B)
    THEN "Tie"
    ELSE "None"

(***************************************************************************)
(* The authoritative board of Game.simulate                                *)
(***************************************************************************)
Self == BoardObj(board, num_black_pieces, num_black_kings,
                 num_white_pieces, num_white_kings, moves, "game")

SetSelfInit(B) ==
    /\ board = B.board
    /\ num_black_pieces = B.num_black_pieces
    /\ num_black_kings = B.num_black_kings
    /\ num_white_pieces = B.num_white_pieces
    /\ num_white_kings = B.num_white_kings
    /\ moves = B.moves

SetSelf(B) ==
    /\ board' = B.board
    /\ num_black_pieces' = B.num_black_pieces
    /\ num_black_kings' = B.num_black_kings
    /\ num_white_pieces' = B.num_white_pieces
    /\ num_white_kings' = B.num_white_kings
    /\ moves' = B.moves

\* the last call on the board: its kind, the side it was made for, whether it raised,
\* the move it was given and the piece found on the move's `from` cell before the call;
\* `depth` is the depth of the CheckersBot when the call is its select_move
Call(op, player, raised, move, piece) ==
    [op |-> op, player |-> player, raised |-> raised, move |-> move, piece |-> piece,
     depth |-> -1]

\* a Board_State: the grid it holds, the move that led to it, and the identity
\* under which it is hashed (Board_State defines no __eq__, so two states with equal
\* grids are different keys); `ref` names the grid object it holds, "game" when that
\* is the grid of the authoritative board and "own" when nothing else holds it
Board_State(id, b, parentMove, ref) ==
    [id |-> id, board |-> b, parentMove |-> parentMove, ref |-> ref]

NoNode == Board_State(<<>>, <<>>, NoMove, "own")

\* MCTS.__init__: empty Q, N and children (a dict is the function from the identities
\* of its keys to its values)
MCTS == [children |-> <<>>, N |-> <<>>, Q |-> <<>>]

\* MCTSBot.__init__; `searches` counts the select_move calls made on the bot, which
\* numbers the root objects they create
MCTSBot(player, rollouts) ==
    [player |-> player, rollouts |-> rollouts, tree |-> MCTS, searches |-> 0]

\* no select_move of the MCTSBot in progress; `i` is the index of the for loop over
\* the rollouts, `path` and `node` are the locals of do_rollout and _simulate
Idle == [pc |-> "idle", i |-> 0, root |-> NoNode, path |-> <<>>, node |-> NoNode,
         reward |-> 0]

\* the timers: `latest` is the state of self.timer ("new" until it is started, then
\* "armed" until it fires or is cancelled), `stale` counts the timers started
\* earlier that have neither fired nor been cancelled
NoTimer == [latest |-> "new", stale |-> 0]

\* the agents before the game: the module level of bots/mctsbot.py, and the
\* MCTSBot of the game when one of the sides is played by it
BotInit(bot) ==
    /\ mctsbot = bot
    /\ search = Idle
    /\ time_check = FALSE
    /\ timer = NoTimer

\* no side is played by an MCTSBot
NoBot == MCTSBot("None", 0)

\* Game.simulate, up to the first select_move: board = BoardHash(), white starts
StartGame(dim, bot) ==
    /\ BOARD_DIMENSION = dim
    /\ SetSelfInit(NewBoard)
    /\ current_turn = white
    /\ winner = "None"
    /\ call = Call("Board", "None", FALSE, NoMove, None)
    /\ BotInit(bot)

GameInit == \E dim \in GameDims : StartGame(dim, NoBot)

\* RandomBot.select_move: random.choice of the legal moves
RandomBot_select_move(B, player) ==
    LET candidates == get_all_valid_moves(B.board, player)
    IN {candidates[i] : i \in 1 .. Len(candidates)}

\* one pass of the while loop of Game.simulate with the bot of `player` to move
Turn(player) ==
    /\ winner = "None"
    /\ current_turn = player
    /\ \E choice \in RandomBot_select_move(Self, player) :
          LET after == make_move(Self, choice)
          IN /\ SetSelf(after)
             /\ winner' = has_winner(after)
             /\ call' = Call("make_move", player, FALSE, choice, get_piece(board, choice.from))
    /\ current_turn' = other(current_turn)
    /\ UNCHANGED <<BOARD_DIMENSION, botvars>>

WhiteTurn == Turn(white)
BlackTurn == Turn(black)

Next == WhiteTurn \/ BlackTurn

Spec == GameInit /\ [][Next]_vars

\* the while loop of Game.simulate goes on for as long as winner is None
GameRuns == []<>(winner # "None") \/ []<><<Next>>_vars

SpecFair == GameInit /\ [][Next]_vars /\ GameRuns

\* most moves of an opening
MaxOpening == 3

\* the first moves of a game, on the 8x8 board as well
OpeningInit == \E dim \in StartDims : StartGame(dim, NoBot)

OpeningWhite == Len(moves) < MaxOpening /\ Turn(white)
OpeningBlack == Len(moves) < MaxOpening /\ Turn(black)

NextOpening == OpeningWhite \/ OpeningBlack

SpecOpening == OpeningInit /\ [][NextOpening]_vars

(***************************************************************************)
(* Boards built from an explicit grid, Board(grid), as Board_State does    *)
(* for every position of a sub-search, and one ply played on them.         *)
(***************************************************************************)
\* most pieces placed on an explicit grid
MaxPieces == 3

\* the cells the standard layout and every diagonal move keep the pieces on
DarkCells == {pos \in Pos : (pos[1] + pos[2]) % 2 # 0}

EmptyGrid == [pos \in Pos |-> None]

NumPieces(b) == Cardinality({pos \in Pos : b[pos] # None})

\* a piece a game can have on `pos`: a non-king never stands on its promotion row
Placeable(pos) ==
    {p \in [player : Player, king : BOOLEAN, position : {pos}] :
        p.king \/ (p.player = white /\ pos[1] # 0)
               \/ (p.player = black /\ pos[1] # BOARD_DIMENSION - 1)}

GridInit ==
    /\ BOARD_DIMENSION \in GridDims
    /\ SetSelfInit(BoardFrom(EmptyGrid, "game"))
    /\ current_turn = white
    /\ winner = "None"
    /\ call = Call("Board", "None", FALSE, NoMove, None)
    /\ BotInit(NoBot)

\* Board(grid) for a grid holding one piece more
BoardOfGrid ==
    /\ moves = <<>>
    /\ NumPieces(board) < MaxPieces
    /\ \E pos \in DarkCells :
          /\ board[pos] = None
          /\ \E p \in Placeable(pos) :
                SetSelf(BoardFrom([board EXCEPT ![pos] = p], "game"))
    /\ call' = Call("Board", "None", FALSE, NoMove, None)
    /\ UNCHANGED <<BOARD_DIMENSION, current_turn, winner, botvars>>

\* one child of Board_State.find_children (white) or find_oppchildren (black):
\* the copy of the board after make_move(option)
Child(player) ==
    /\ moves = <<>>
    /\ LET options == get_all_valid_moves(board, player)
       IN \E i \in 1 .. Len(options) :
             /\ SetSelf(make_move(Self, options[i]))
             /\ call' = Call("make_move", player, FALSE, options[i],
                             get_piece(board, options[i].from))
    /\ UNCHANGED <<BOARD_DIMENSION, current_turn, winner, botvars>>

find_children == Child(white)
find_oppchildren == Child(black)

NextGrid == BoardOfGrid \/ find_children \/ find_oppchildren

SpecGrid == GridInit /\ [][NextGrid]_vars

(***************************************************************************)
(* Boards built from an explicit grid on which a black piece finds white   *)
(* men to jump in a chain of up to three jumps.                            *)
(***************************************************************************)
\* board dimensions of the grids on which a chain of three jumps fits
ChainDims == {7}
\* most pieces placed on such a grid
MaxChainPieces == 4

\* the cells of the even rows, on which the jumping piece stands and lands, and the
\* cells of the odd rows, on which the pieces it jumps stand
JumperCells == {pos \in DarkCells : pos[1] % 2 = 0}
JumpedCells == {pos \in DarkCells : pos[1] % 2 = 1}

ChainInit ==
    /\ BOARD_DIMENSION \in ChainDims
    /\ SetSelfInit(BoardFrom(EmptyGrid, "game"))
    /\ current_turn = black
    /\ winner = "None"
    /\ call = Call("Board", "None", FALSE, NoMove, None)
    /\ BotInit(NoBot)

\* the pieces a grid of chains can take next: first a black piece, then white men
ChainPieces ==
    IF NumPieces(board) = 0
    THEN UNION {{p \in Placeable(pos) : p.player = black} : pos \in JumperCells}
    ELSE {Piece(pos, white) : pos \in {cell \in JumpedCells : board[cell] = None}}

\* Board(grid) for a grid of chains holding one piece more
BoardOfChain ==
    /\ moves = <<>>
    /\ NumPieces(board) < MaxChainPieces
    /\ \E p \in ChainPieces : SetSelf(BoardFrom([board EXCEPT ![p.position] = p], "game"))
    /\ call' = Call("Board", "None", FALSE, NoMove, None)
    /\ UNCHANGED <<BOARD_DIMENSION, current_turn, winner, botvars>>

NextChain == BoardOfChain \/ find_oppchildren

SpecChain == ChainInit /\ [][NextChain]_vars

(***************************************************************************)
(* make_move handed a move that the board did not generate                 *)
(***************************************************************************)
Neighbours(pos) ==
    {q \in Pos : q[1] - pos[1] \in {-1, 1} /\ q[2] - pos[2] \in {-1, 1}}

\* the captured lists handed in: none, or one piece snapshot
CapturedInputs ==
    {<<>>} \cup {<<Piece(pos, p)>> : pos \in DarkCells, p \in Player}

\* the claim's illegal moves: no piece on `from`, or a captured piece that is not
\* on the board at its position
Illegal(b, move) ==
    \/ b[move.from] = None
    \/ \E i \in 1 .. Len(move.captured) : b[move.captured[i].position] # move.captured[i]

MakeIllegalMove ==
    /\ call.op # "make_move_illegal"
    /\ \E from \in DarkCells, captured \in CapturedInputs :
          \E to \in Neighbours(from) :
             LET move == Move(from, to, captured)
             IN /\ Illegal(board, move)
                /\ IF make_move_raises(Self, move)
                   THEN /\ UNCHANGED <<board, num_black_pieces, num_black_kings,
                                       num_white_pieces, num_white_kings, moves>>
                        /\ call' = Call("make_move_illegal", current_turn, TRUE, move, None)
                   ELSE /\ SetSelf(make_move(Self, move))
                        /\ call' = Call("make_move_illegal", current_turn, FALSE, move,
                                        get_piece(board, from))
    /\ UNCHANGED <<BOARD_DIMENSION, current_turn, winner, botvars>>

LegalWhiteTurn == call.op # "make_move_illegal" /\ WhiteTurn
LegalBlackTurn == call.op # "make_move_illegal" /\ BlackTurn

NextContract == LegalWhiteTurn \/ LegalBlackTurn \/ MakeIllegalMove

SmallInit == \E dim \in SmallDims : StartGame(dim, NoBot)

SpecContract == SmallInit /\ [][NextContract]_vars

(***************************************************************************)
(* Histories handed to the draw rules                                      *)
(***************************************************************************)
\* longest history built
MaxHistory == 13

\* two non-capturing moves that share `from` and differ in `to`
HistoryMoves == {Move(<<1, 0>>, <<2, 1>>, <<>>), Move(<<1, 0>>, <<0, 1>>, <<>>)}

\* self.moves.append(move), then has_winner on the board with that history
RecordMove ==
    /\ Len(moves) < MaxHistory
    /\ \E move \in HistoryMoves :
          /\ moves' = Append(moves, move)
          /\ winner' = has_winner([Self EXCEPT !.moves = Append(moves, move)])
          /\ call' = Call("append", "None", FALSE, move, None)
    /\ UNCHANGED <<BOARD_DIMENSION, board, num_black_pieces, num_black_kings,
                   num_white_pieces, num_white_kings, current_turn, botvars>>

NextHistory == RecordMove

SpecHistory == SmallInit /\ [][NextHistory]_vars

(***************************************************************************)
(* Board.evaluate and CheckersBot (bots/checkersbot.py)                    *)
(* _kings_distance divides by 2, so every heuristic value is a multiple    *)
(* of one half: the values of evaluate and of a Choice are kept in halves, *)
(* Halves(x) standing for the Python number x.                             *)
(***************************************************************************)
Halves(x) == 2 * x

Abs(x) == IF x < 0 THEN -x ELSE x

POSITIONAL_EVALUATION ==
    << <<0, 0, 0, 0, 0, 0, 0, 0>>,
       <<2, 0, 2, 0, 2, 0, 2, 0>>,
       <<0, 0, 0, 1, 0, 1, 0, 0>>,
       <<0, 0, 1, 0, 1, 0, 0, 0>>,
       <<0, 0, 0, 1, 0, 1, 0, 0>>,
       <<0, 0, 0, 0, 0, 0, 0, 0>>,
       <<0, 0, 0, 0, 0, 0, 0, 0>>,
       <<3, 0, 3, 0, 3, 0, 3, 0>> >>

\* POSITIONAL_EVALUATION[row][col] with Python's 0-based indices
Positional(row, col) == POSITIONAL_EVALUATION[row + 1][col + 1]

RECURSIVE KingsDistanceLoop(_, _, _, _)
KingsDistanceLoop(piece, opponent_pieces, i, min_distance) ==
    IF i > Len(opponent_pieces) THEN min_distance
    ELSE LET opp_piece == opponent_pieces[i]
             distance == Halves(Abs(piece.position[1] - opp_piece.position[1]))
                         + Abs(piece.position[2] - opp_piece.position[2])
         IN KingsDistanceLoop(piece, opponent_pieces, i + 1,
                              IF distance < min_distance THEN distance ELSE min_distance)

_kings_distance(b, piece) ==
    Halves(BOARD_DIMENSION)
    - KingsDistanceLoop(piece, get_all_pieces(b, other(piece.player)), 1,
                        Halves(BOARD_DIMENSION - 1))

RECURSIVE PiecesPositionLoop(_, _, _, _)
PiecesPositionLoop(b, player, pieces, i) ==
    IF i > Len(pieces) THEN 0
    ELSE LET piece == pieces[i]
             points == IF piece.king THEN _kings_distance(b, piece)
                       ELSE IF player = white
                       THEN Halves(Positional(piece.position[1], piece.position[2]))
                       ELSE Halves(Positional(BOARD_DIMENSION - 1 - piece.position[1],
                                              BOARD_DIMENSION - 1 - piece.position[2]))
         IN points + PiecesPositionLoop(b, player, pieces, i + 1)

_evaluate_pieces_position(b, player) ==
    PiecesPositionLoop(b, player, get_all_pieces(b, player), 1)

_evaluate_num_pieces(B, player) ==
    IF player = black
    THEN Halves(B.num_black_pieces * 10 - B.num_white_pieces * 10
                + B.num_black_kings * 10 - B.num_white_kings * 10)
    ELSE IF player = white
    THEN Halves(B.num_white_pieces * 10 - B.num_black_pieces * 10
                + B.num_white_kings * 10 - B.num_black_kings * 10)
    ELSE 0

\* Board.evaluate when random.randint(0, 1) returns `noise`: _evaluate_num_pieces is
\* called and its result is not added to the evaluation
Evaluation(B, player, noise) ==
    _evaluate_pieces_position(B.board, player)
    - _evaluate_pieces_position(B.board, other(player)) + Halves(noise)

\* Board.evaluate: the values it can return, one per outcome of random.randint(0, 1)
evaluate(B, player) == {Evaluation(B, player, noise) : noise \in {0, 1}}

Choice(move, value, depth) == [move |-> move, value |-> value, depth |-> depth]

\* Python's None where a Choice is expected
NoChoice == Choice(NoMove, 0, -1)

\* the AttributeError of `result.move = ...` on a result that is None
Raised == Choice(NoMove, 0, -2)

\* a CheckersBot; `randint` tells what random.randint(0, 1) returns to the evaluate
\* calls of its searches: "any" outcome at every call, or an outcome fixed for every
\* position ("zero", "one", or "parity" of the column the last move went to)
CheckersBot(player, depth) == [player |-> player, depth |-> depth, randint |-> "any"]

FixedBot(player, depth, randint) == [CheckersBot(player, depth) EXCEPT !.randint = randint]

Draws(bot, B) ==
    IF bot.randint = "any" THEN {0, 1}
    ELSE IF bot.randint = "parity" THEN {last_move(B).to[2] % 2}
    ELSE IF bot.randint = "one" THEN {1}
    ELSE {0}

_evaluate(bot, B) == {Evaluation(B, bot.player, noise) : noise \in Draws(bot, B)}

\* CheckersBot.alpha_beta_search: the Choices it can return over the outcomes of the
\* random point of evaluate
RECURSIVE alpha_beta_search(_, _, _, _, _, _, _)
RECURSIVE AlphaBetaLoop(_, _, _, _, _, _, _, _, _, _)
\* a search that tests the depth limit before it asks for the winner
limit_first(bot, B, is_max, current_player, depth, alpha, beta) ==
    UNION {IF depth = bot.depth
           THEN {Choice(last_move(B), value, depth) : value \in _evaluate(bot, B)}
           ELSE IF w = bot.player
           THEN {Choice(last_move(B), Halves(1000 - depth), depth)}
           ELSE IF w = other(bot.player)
           THEN {Choice(last_move(B), Halves(-1000 + depth), depth)}
           ELSE IF w = "Tie"
           THEN {Choice(last_move(B), Halves(0 + depth), depth)}
           ELSE AlphaBetaLoop(bot, B, is_max, current_player, depth,
                              get_all_valid_moves(B.board, current_player), 1,
                              alpha, beta, NoChoice)
           : w \in {has_winner(B)}}

alpha_beta_search(bot, B, is_max, current_player, depth, alpha, beta) ==
    UNION {IF w = bot.player
           THEN {Choice(last_move(B), Halves(1000 - depth), depth)}
           ELSE IF w = other(bot.player)
           THEN {Choice(last_move(B), Halves(-1000 + depth), depth)}
           ELSE IF w = "Tie"
           THEN {Choice(last_move(B), Halves(0 + depth), depth)}
           ELSE IF depth = bot.depth
           THEN {Choice(last_move(B), value, depth) : value \in _evaluate(bot, B)}
           ELSE AlphaBetaLoop(bot, B, is_max, current_player, depth,
                              get_all_valid_moves(B.board, current_player), 1,
                              alpha, beta, NoChoice)
           : w \in {has_winner(B)}}

\* a loop that tries its first candidate and returns the result
first_candidate(bot, B, is_max, current_player, depth, candidates, i, alpha, beta, best) ==
    UNION {{[found EXCEPT !.move = last_move(new_board)] :
              found \in alpha_beta_search(bot, new_board, ~is_max, other(current_player),
                                          depth + 1, alpha, beta)}
           : new_board \in {make_move(deepcopy(B), candidates[1])}}

\* the for loop of alpha_beta_search from candidate i on, with max_choice or
\* min_choice (whichever is_max uses) in `best`
AlphaBetaLoop(bot, B, is_max, current_player, depth, candidates, i, alpha, beta, best) ==
    IF i > Len(candidates) THEN {best}
    ELSE LET after(new_board, found) ==
                 IF found.depth < 0 THEN {Raised}
                 ELSE LET result == [found EXCEPT !.move = last_move(new_board)]
                          new_alpha == IF is_max THEN Max(result.value, alpha) ELSE alpha
                          new_beta == IF is_max THEN beta ELSE Min(result.value, beta)
                          better == \/ best = NoChoice
                                    \/ is_max /\ result.value > best.value
                                    \/ ~is_max /\ result.value < best.value
                      IN IF new_alpha >= new_beta THEN {result}
                         ELSE AlphaBetaLoop(bot, B, is_max, current_player, depth, candidates,
                                            i + 1, new_alpha, new_beta,
                                            IF better THEN result ELSE best)
         IN UNION {UNION {after(new_board, found) :
                            found \in alpha_beta_search(bot, new_board, ~is_max,
                                                        other(current_player),
                                                        depth + 1, alpha, beta)}
                   : new_board \in {make_move(deepcopy(B), candidates[i])}}

\* the boards alpha_beta_search calls make_move on at search depth 0
AlphaBetaBoards(bot, B) ==
    IF has_winner(B) # "None" \/ bot.depth = 0 THEN {}
    ELSE UNION {{make_move(deepcopy(B), candidates[i]) : i \in 1 .. Len(candidates)}
                : candidates \in {get_all_valid_moves(B.board, bot.player)}}

\* CheckersBot.select_move: the moves it can return; NoMove is Python's None
CheckersBot_select_move(bot, B) ==
    {choice.move : choice \in alpha_beta_search(bot, B, TRUE, bot.player, 0,
                                                Halves(-1000), Halves(1000))}

(***************************************************************************)
(* Board_State (checkers/board.py) and MCTS (bots/mctsbot.py)              *)
(***************************************************************************)
\* Board_State.is_terminal: has_winner of a Board built on a copy of the grid
is_terminal(b) == has_winner(BoardFrom(b, "own")) # "None"

\* Board_State.reward
RewardOf(w) == IF w = white THEN 1 ELSE IF w = black THEN -1 ELSE 0

reward(b) == RewardOf(has_winner(BoardFrom(b, "own")))

\* Board_State.find_children and find_oppchildren: one new Board_State per option of
\* `player`, holding the grid of a copy of the board after the option; find_children
\* records the option as parentMove, find_oppchildren leaves parentMove None
ChildOf(node, i, option, board_copy) ==
    Board_State(Append(node.id, i), board_copy.board, option, board_copy.ref)

ChildrenOf(node, boardObj, options, keepMove) ==
    {ChildOf(node, i, IF keepMove THEN options[i] ELSE NoMove,
             make_move(deepcopy(boardObj), options[i])) : i \in 1 .. Len(options)}

Children(node, player, keepMove) ==
    ChildrenOf(node, BoardFrom(node.board, deepcopy(node).ref),
               get_all_valid_moves(node.board, player), keepMove)

Board_State_find_children(node) == Children(node, white, TRUE)

Board_State_find_oppchildren(node) == Children(node, black, FALSE)

\* Board_State.find_random_child: a white move, then a black move unless the board
\* is terminal after the white one; the empty set when random.choice is handed an
\* empty list and raises IndexError
RandomChildOf(boardObj) == Board_State(<<>>, boardObj.board, NoMove, boardObj.ref)

\* the second half of find_random_child, on the board after the white move
RandomReply(moved, options2) ==
    IF is_terminal(moved.board)
    THEN {RandomChildOf(moved)}
    ELSE {RandomChildOf(make_move(moved, options2[j])) : j \in 1 .. Len(options2)}

RandomChildren(boardObj, options1) ==
    UNION {UNION {RandomReply(moved, get_all_valid_moves(moved.board, black))
                  : moved \in {make_move(boardObj, options1[i])}}
           : i \in 1 .. Len(options1)}

find_random_child(node) ==
    RandomChildren(BoardFrom(node.board, deepcopy(node).ref),
                   get_all_valid_moves(node.board, white))

\* d[k] of a defaultdict(int): 0 for a key that was never assigned (the 0 entry such
\* a read inserts is not kept: an absent key and a key holding 0 are read alike)
Get(d, k) == IF k \in DOMAIN d THEN d[k] ELSE 0

\* d[k] = v
Put(d, k, v) == [x \in (DOMAIN d) \cup {k} |-> IF x = k THEN v ELSE d[x]]

\* 10^6 * math.sqrt(math.log(N_vertex) / N_child), rounded down, at
\* [N_vertex][N_child]: the exploration term of uct in millionths
ExploreMicro ==
    <<
       <<0, 0, 0, 0, 0, 0>>,
       <<832554, 588705, 480675, 416277, 372329, 339888>>,
       <<1048147, 741151, 605147, 524073, 468745, 427904>>,
       <<1177410, 832554, 679777, 588705, 526553, 480675>>,
       <<1268636, 897061, 732447, 634318, 567351, 517918>>,
       <<1338566, 946509, 772821, 669283, 598625, 546467>> >>

\* uct(n) in millionths
uct(t, node, n) ==
    IF Get(t.N, n.id) = 0 THEN 999 * 1000000
    ELSE (Get(t.Q, n.id) * 1000000) \div Get(t.N, n.id)
         + ExploreMicro[Get(t.N, node.id)][Get(t.N, n.id)]

\* MCTS._uct_select: max over a set returns one of the children of greatest uct
_uct_select(t, node) ==
    {n \in t.children[node.id] : \A m \in t.children[node.id] : uct(t, node, m) <= uct(t, node, n)}

\* the nodes on which the loop of MCTS._select, started at `node`, calls _uct_select
RECURSIVE UctCalls(_, _)
UctCalls(t, node) ==
    IF node.id \notin DOMAIN t.children \/ t.children[node.id] = {} THEN {}
    ELSE IF {n \in t.children[node.id] : n.id \notin DOMAIN t.children} # {} THEN {}
    ELSE IF Get(t.N, node.id) = 0 THEN {node}
    ELSE {node} \cup UNION {UctCalls(t, n) : n \in _uct_select(t, node)}

\* MCTS._select: the paths it can return; <<>> when math.log(0) raises ValueError
RECURSIVE SelectLoop(_, _, _)
SelectLoop(t, node, path) ==
    LET path1 == Append(path, node)
    IN IF node.id \notin DOMAIN t.children \/ t.children[node.id] = {} THEN {path1}
       ELSE LET unexplored == {n \in t.children[node.id] : n.id \notin DOMAIN t.children}
            IN IF unexplored # {} THEN {Append(path1, n) : n \in unexplored}
               ELSE IF Get(t.N, node.id) = 0 THEN {<<>>}
               ELSE UNION {SelectLoop(t, n, path1) : n \in _uct_select(t, node)}

_select(t, node) == SelectLoop(t, node, <<>>)

\* MCTS._expand
\* the assignments of _expand: self.children[node] = children, and for each child
\* self.children[child] = child.find_oppchildren()
ExpandWith(t, node, children) ==
    [t EXCEPT !.children =
        [id \in (DOMAIN t.children) \cup {node.id} \cup {child.id : child \in children} |->
            IF id = node.id THEN children
            ELSE IF \E child \in children : child.id = id
            THEN Board_State_find_oppchildren(CHOOSE child \in children : child.id = id)
            ELSE t.children[id]]]

_expand(t, node) ==
    IF node.id \in DOMAIN t.children THEN t
    ELSE ExpandWith(t, node, Board_State_find_children(node))

\* the Board_States that _expand created on the way from tree t to tree expanded
Expanded(t, expanded) ==
    UNION {expanded.children[id] : id \in (DOMAIN expanded.children) \ (DOMAIN t.children)}

\* a _backpropagate that leaves N and Q as they are
uncounted(t, path, i, r) == t

\* MCTS._backpropagate, from path[i] up to path[1]
RECURSIVE _backpropagate(_, _, _, _)
_backpropagate(t, path, i, r) ==
    IF i = 0 THEN t
    ELSE LET node == path[i]
             r1 == IF ~is_terminal(node.board) THEN 1 - r ELSE r
         IN _backpropagate([t EXCEPT !.N = Put(t.N, node.id, Get(t.N, node.id) + 1),
                                     !.Q = Put(t.Q, node.id, Get(t.Q, node.id) + r1)],
                           path, i - 1, r1)

\* score(n) of MCTS.choose is greater for n than for m; -inf for an unseen child
ScoreLess(t, m, n) ==
    /\ Get(t.N, n.id) # 0
    /\ \/ Get(t.N, m.id) = 0
       \/ Get(t.Q, m.id) * Get(t.N, n.id) < Get(t.Q, n.id) * Get(t.N, m.id)

\* any child of the node, whatever its statistics
any_child(t, node) == t.children[node.id]

\* MCTS.choose on an expanded, non-terminal node: the children max can return
choose(t, node) ==
    {n \in t.children[node.id] : \A m \in t.children[node.id] : ~ScoreLess(t, n, m)}

\* the optionsNQ list MCTS.choose returns, as the set of its entries
optionsNQ(t, node) ==
    {<<Get(t.N, n.id), Get(t.Q, n.id)>> : n \in {m \in t.children[node.id] : Get(t.N, m.id) # 0}}

(***************************************************************************)
(* The agents asked for a move during a game (Game.simulate)               *)
(***************************************************************************)
\* MCTSBot.rollouts of the MCTSBot of the game
Rollouts == 2
\* most select_move calls of the MCTSBot in one game whose rollouts are run
MaxSearches == 1
\* most moves made in a game whose agents are asked for their moves
MaxPly == 1
\* greatest CheckersBot.depth
MaxDepth == 2

BotsInit == \E dim \in SmallDims, player \in Player : StartGame(dim, MCTSBot(player, Rollouts))

\* the Board objects and Board_States among `objs` that hold the grid of the game
GameWrites(objs) == {o \in objs : o.ref = "game"}

\* the authoritative board after make_move was called on the Board objects `boards`
Store(boards) ==
    IF GameWrites(boards) = {}
    THEN UNCHANGED <<board, num_black_pieces, num_black_kings,
                     num_white_pieces, num_white_kings, moves>>
    ELSE \E B \in GameWrites(boards) : SetSelf(B)

\* the authoritative board after make_move was called on Boards built on the grids
\* that `nodes` hold
StoreGrid(nodes) ==
    /\ IF GameWrites(nodes) = {} THEN UNCHANGED board
       ELSE \E node \in GameWrites(nodes) : board' = node.board
    /\ UNCHANGED <<num_black_pieces, num_black_kings, num_white_pieces, num_white_kings, moves>>

\* where the while loop of Game.simulate stands, read from the last call: an agent
\* is asked for a move at the top of the loop, its choice is handed to make_move,
\* and has_winner is called on the board after the move
SelectOps == {"RandomBot.select_move", "CheckersBot.select_move", "MCTSBot.select_move"}

AtSelect ==
    /\ search.pc = "idle"
    /\ winner = "None"
    /\ call.op \in {"Board", "has_winner"}
    /\ ~call.raised

\* choice = bot.select_move(board) with a RandomBot to move
RandomBotSelect ==
    /\ AtSelect
    /\ current_turn # mctsbot.player
    /\ \E candidates \in {RandomBot_select_move(Self, current_turn)} :
          IF candidates = {}
          THEN call' = Call("RandomBot.select_move", current_turn, TRUE, NoMove, None)
          ELSE \E choice \in candidates :
                  call' = Call("RandomBot.select_move", current_turn, FALSE, choice, None)
    /\ UNCHANGED <<BOARD_DIMENSION, board, num_black_pieces, num_black_kings, num_white_pieces,
                   num_white_kings, moves, current_turn, winner, botvars>>

\* CheckersBot(current_turn, depth).select_move(board)
CheckersBotCall(depth) ==
    \E bot \in {CheckersBot(current_turn, depth)} :
       /\ \E choice \in alpha_beta_search(bot, Self, TRUE, bot.player, 0,
                                          Halves(-1000), Halves(1000)) :
             call' = [Call("CheckersBot.select_move", current_turn, choice.depth < 0,
                           choice.move, None) EXCEPT !.depth = depth]
       /\ Store(AlphaBetaBoards(bot, Self))

\* choice = bot.select_move(board) with a CheckersBot to move
CheckersBotSelect ==
    /\ AtSelect
    /\ current_turn # mctsbot.player
    /\ \E depth \in 0 .. MaxDepth : CheckersBotCall(depth)
    /\ UNCHANGED <<BOARD_DIMENSION, current_turn, winner, botvars>>

\* select_move called once more on the CheckersBot that has just returned a move
CheckersBotRepeat ==
    /\ search.pc = "idle"
    /\ call.op = "CheckersBot.select_move"
    /\ ~call.raised
    /\ CheckersBotCall(call.depth)
    /\ UNCHANGED <<BOARD_DIMENSION, current_turn, winner, botvars>>

\* board.make_move(choice)
PlayMove ==
    /\ search.pc = "idle"
    /\ call.op \in SelectOps
    /\ ~call.raised
    /\ IF call.move = NoMove \/ make_move_raises(Self, call.move)
       THEN /\ call' = Call("make_move", current_turn, TRUE, call.move, None)
            /\ UNCHANGED <<board, num_black_pieces, num_black_kings, num_white_pieces,
                           num_white_kings, moves>>
       ELSE /\ SetSelf(make_move(Self, call.move))
            /\ call' = Call("make_move", current_turn, FALSE, call.move,
                            get_piece(board, call.move.from))
    /\ UNCHANGED <<BOARD_DIMENSION, current_turn, winner, botvars>>

\* board.make_move(choice) in the games the MCTSBot plays
MakeMove == Len(moves) < MaxPly /\ PlayMove

\* winner = board.has_winner(); current_turn = current_turn.other
HasWinner ==
    /\ call.op = "make_move"
    /\ ~call.raised
    /\ winner' = has_winner(Self)
    /\ current_turn' = other(current_turn)
    /\ call' = Call("has_winner", current_turn, FALSE, NoMove, None)
    /\ UNCHANGED <<BOARD_DIMENSION, board, num_black_pieces, num_black_kings, num_white_pieces,
                   num_white_kings, moves, botvars>>

\* MCTSBot.select_move up to the first do_rollout: boardHash = Board_State(board.board)
MCTSBotSelect ==
    /\ AtSelect
    /\ current_turn = mctsbot.player
    /\ mctsbot.searches <= MaxSearches
    /\ mctsbot' = [mctsbot EXCEPT !.searches = @ + 1]
    /\ search' = [Idle EXCEPT !.pc = IF mctsbot.rollouts > 0 THEN "do_rollout" ELSE "choose",
                              !.root = Board_State(<<mctsbot.searches + 1>>, board, NoMove, "game")]
    /\ call' = Call("Board_State", mctsbot.player, FALSE, NoMove, None)
    /\ UNCHANGED <<BOARD_DIMENSION, board, num_black_pieces, num_black_kings, num_white_pieces,
                   num_white_kings, moves, current_turn, winner, time_check, timer>>

\* MCTS.do_rollout: _select, _expand, and _simulate up to its loop (the timer is
\* started)
DoRollout ==
    /\ search.pc = "do_rollout"
    /\ mctsbot.searches <= MaxSearches
    /\ \E path \in _select(mctsbot.tree, search.root) :
          IF path = <<>>
          THEN /\ search' = Idle
               /\ call' = Call("MCTSBot.select_move", mctsbot.player, TRUE, NoMove, None)
               /\ UNCHANGED <<mctsbot, timer, board, num_black_pieces, num_black_kings,
                              num_white_pieces, num_white_kings, moves>>
          ELSE \E expanded \in {_expand(mctsbot.tree, path[Len(path)])} :
                  /\ mctsbot' = [mctsbot EXCEPT !.tree = expanded]
                  /\ StoreGrid(Expanded(mctsbot.tree, expanded))
                  /\ timer' = [latest |-> "armed",
                               stale |-> timer.stale + IF timer.latest = "armed" THEN 1 ELSE 0]
                  /\ search' = [search EXCEPT !.pc = "_simulate", !.path = path,
                                              !.node = path[Len(path)]]
                  /\ UNCHANGED call
    /\ UNCHANGED <<BOARD_DIMENSION, current_turn, winner, time_check>>

\* one pass of the while loop of MCTS._simulate
Simulate ==
    /\ search.pc = "_simulate"
    /\ IF is_terminal(search.node.board)
       THEN /\ search' = [search EXCEPT !.pc = "_backpropagate",
                                        !.reward = reward(search.node.board)]
            /\ timer' = [timer EXCEPT !.latest = IF @ = "armed" THEN "cancelled" ELSE @]
            /\ StoreGrid({})
            /\ UNCHANGED <<time_check, call>>
       ELSE IF time_check
       THEN /\ time_check' = FALSE
            /\ search' = [search EXCEPT !.pc = "_backpropagate", !.reward = 0]
            /\ StoreGrid({})
            /\ UNCHANGED <<timer, call>>
       ELSE \E children \in {find_random_child(search.node)} :
               IF children = {}
               THEN /\ search' = Idle
                    /\ call' = Call("MCTSBot.select_move", mctsbot.player, TRUE, NoMove, None)
                    /\ StoreGrid({})
                    /\ UNCHANGED <<time_check, timer>>
               ELSE \E child \in children :
                       /\ search' = [search EXCEPT !.node = child]
                       /\ StoreGrid({child})
                       /\ UNCHANGED <<time_check, timer, call>>
    /\ UNCHANGED <<BOARD_DIMENSION, current_turn, winner, mctsbot>>

\* a timer that runs out without a word to the loop of _simulate
silent_timer ==
    /\ \/ /\ timer.latest = "armed"
          /\ timer' = [timer EXCEPT !.latest = "fired"]
       \/ /\ timer.stale > 0
          /\ timer' = [timer EXCEPT !.stale = @ - 1]
    /\ UNCHANGED <<BOARD_DIMENSION, board, num_black_pieces, num_black_kings, num_white_pieces,
                   num_white_kings, moves, current_turn, winner, call, mctsbot, search,
                   time_check>>

\* r0, run by the thread of a timer that was started and not cancelled
r0 ==
    /\ \/ /\ timer.latest = "armed"
          /\ timer' = [timer EXCEPT !.latest = "fired"]
       \/ /\ timer.stale > 0
          /\ timer' = [timer EXCEPT !.stale = @ - 1]
    /\ time_check' = TRUE
    /\ UNCHANGED <<BOARD_DIMENSION, board, num_black_pieces, num_black_kings, num_white_pieces,
                   num_white_kings, moves, current_turn, winner, call, mctsbot, search>>

\* MCTS._backpropagate and the end of the pass of the for loop of select_move
Backpropagate ==
    /\ search.pc = "_backpropagate"
    /\ mctsbot' = [mctsbot EXCEPT !.tree = _backpropagate(@, search.path, Len(search.path),
                                                          search.reward)]
    /\ search' = [search EXCEPT !.pc = IF search.i + 1 < mctsbot.rollouts
                                       THEN "do_rollout" ELSE "choose",
                                !.i = @ + 1]
    /\ UNCHANGED <<BOARD_DIMENSION, board, num_black_pieces, num_black_kings, num_white_pieces,
                   num_white_kings, moves, current_turn, winner, call, time_check, timer>>

\* the results of the rest of MCTSBot.select_move: tree.choose(boardHash), the best
\* average reward, and choice.parentMove; raised when choose raises RuntimeError,
\* when its result is not a pair (the root was never expanded) and when optionsNQ
\* is empty
Chosen(t, root) ==
    IF is_terminal(root.board) \/ root.id \notin DOMAIN t.children
          \/ t.children[root.id] = {} \/ optionsNQ(t, root) = {}
    THEN {[raised |-> TRUE, move |-> NoMove]}
    ELSE {[raised |-> FALSE, move |-> choice.parentMove] : choice \in choose(t, root)}

Choose ==
    /\ search.pc = "choose"
    /\ mctsbot.searches <= MaxSearches
    /\ \E chosen \in Chosen(mctsbot.tree, search.root) :
          call' = Call("MCTSBot.select_move", mctsbot.player, chosen.raised, chosen.move, None)
    /\ search' = Idle
    /\ UNCHANGED <<BOARD_DIMENSION, board, num_black_pieces, num_black_kings, num_white_pieces,
                   num_white_kings, moves, current_turn, winner, mctsbot, time_check, timer>>

NextBots ==
    \/ RandomBotSelect \/ CheckersBotSelect \/ MakeMove \/ HasWinner
    \/ MCTSBotSelect \/ DoRollout \/ Simulate \/ r0 \/ Backpropagate \/ Choose

SpecBots == BotsInit /\ [][NextBots]_vars

\* one select_move of an MCTSBot that plays white, on the starting board, for every
\* number of rollouts up to Rollouts
SearchInit ==
    \E dim \in SmallDims, rollouts \in 0 .. Rollouts : StartGame(dim, MCTSBot(white, rollouts))

NextSearch == MCTSBotSelect \/ DoRollout \/ Simulate \/ r0 \/ Backpropagate \/ Choose

\* the loop of _simulate keeps running: weak fairness of Simulate, which can take a
\* step exactly while search.pc = "_simulate"
LoopRuns == []<>(search.pc # "_simulate") \/ []<><<Simulate>>_vars

\* the loop of _simulate keeps running, and a timer that was started and not cancelled
\* runs r0 in the end
SpecSearch == SearchInit /\ [][NextSearch]_vars /\ LoopRuns /\ WF_vars(r0)

\* a game in which an MCTSBot plays white and a RandomBot black
NextGame ==
    \/ RandomBotSelect \/ PlayMove \/ HasWinner
    \/ MCTSBotSelect \/ DoRollout \/ Simulate \/ r0 \/ Backpropagate \/ Choose

SpecGame == SearchInit /\ [][NextGame]_vars

\* most visits of a child in the statistics handed to choose
MaxVisits == 2

\* N and Q of a node after at most MaxVisits visits: _backpropagate adds -1, 0, 1 or 2
\* to Q at every visit
VisitStats ==
    {nq \in (0 .. MaxVisits) \X (-MaxVisits .. 2 * MaxVisits) : -nq[1] <= nq[2] /\ nq[2] <= 2 * nq[1]}

\* the root of the first select_move of a game
FirstRoot == Board_State(<<1>>, board, NoMove, "game")

\* the tree after rollouts from `root` that left the statistics `stats` on its children
TreeWith(expanded, stats) ==
    [expanded EXCEPT !.N = [id \in DOMAIN stats |-> stats[id][1]],
                     !.Q = [id \in DOMAIN stats |-> stats[id][2]]]

\* MCTSBot.select_move at tree.choose(boardHash), after rollouts on the starting board
ChooseInit ==
    /\ BOARD_DIMENSION \in SmallDims
    /\ SetSelfInit(NewBoard)
    /\ current_turn = white
    /\ winner = "None"
    /\ call = Call("Board_State", white, FALSE, NoMove, None)
    /\ time_check = FALSE
    /\ timer = NoTimer
    /\ search = [Idle EXCEPT !.pc = "choose", !.root = FirstRoot]
    /\ \E expanded \in {_expand(MCTS, FirstRoot)} :
          \E stats \in [{child.id : child \in expanded.children[FirstRoot.id]} -> VisitStats] :
              mctsbot = [MCTSBot(white, Rollouts) EXCEPT !.searches = 1,
                                                        !.tree = TreeWith(expanded, stats)]

NextChoose == Choose

SpecChoose == ChooseInit /\ [][NextChoose]_vars

\* games between a RandomBot and CheckersBots of every depth
NextMinimax == RandomBotSelect \/ CheckersBotSelect \/ CheckersBotRepeat \/ PlayMove \/ HasWinner

SpecMinimax == SmallInit /\ [][NextMinimax]_vars

\* select_move of an MCTSBot that plays white on the boards of explicit grids of men,
\* in searches whose playouts end before the timer runs out
TreeInit ==
    /\ BOARD_DIMENSION \in SmallDims
    /\ SetSelfInit(BoardFrom(EmptyGrid, "game"))
    /\ current_turn = white
    /\ winner = "None"
    /\ call = Call("Board", "None", FALSE, NoMove, None)
    /\ BotInit(MCTSBot(white, Rollouts))

\* Board(grid) for a grid holding one man more, before the agent is asked for a move
BoardOfMen ==
    /\ mctsbot.searches = 0
    /\ NumPieces(board) < MaxPieces
    /\ \E pos \in DarkCells :
          /\ board[pos] = None
          /\ \E p \in {q \in Placeable(pos) : ~q.king} :
                SetSelf(BoardFrom([board EXCEPT ![pos] = p], "game"))
    /\ call' = Call("Board", "None", FALSE, NoMove, None)
    /\ UNCHANGED <<BOARD_DIMENSION, current_turn, winner, botvars>>

\* the game loop asks for a move only while has_winner returns None
TreeSelect == has_winner(Self) = "None" /\ MCTSBotSelect

NextTree == BoardOfMen \/ TreeSelect \/ DoRollout \/ Simulate \/ Backpropagate \/ Choose

SpecTree == TreeInit /\ [][NextTree]_vars

\* MCTSBot.rollouts of the agent whose searches go below the children of the root
DeepRollouts == 3

\* select_move of an MCTSBot of DeepRollouts rollouts that plays white on the boards
\* Board(grid) of the grids that hold one white man and one black man
DeepInit ==
    /\ BOARD_DIMENSION \in SmallDims
    /\ \E wpos \in DarkCells, bpos \in DarkCells :
          /\ wpos # bpos
          /\ \E wp \in {q \in Placeable(wpos) : ~q.king /\ q.player = white},
                bp \in {q \in Placeable(bpos) : ~q.king /\ q.player = black} :
                SetSelfInit(BoardFrom([EmptyGrid EXCEPT ![wpos] = wp, ![bpos] = bp], "game"))
    /\ current_turn = white
    /\ winner = "None"
    /\ call = Call("Board", "None", FALSE, NoMove, None)
    /\ BotInit(MCTSBot(white, DeepRollouts))

NextDeep == TreeSelect \/ DoRollout \/ Simulate \/ Backpropagate \/ Choose

SpecDeep == DeepInit /\ [][NextDeep]_vars

\* the game loop asks a CheckersBot for a move on the board of an explicit grid
GridSelect == moves = <<>> /\ has_winner(Self) = "None" /\ CheckersBotSelect

\* an empty grid on which no side is played by an MCTSBot
MenInit ==
    /\ BOARD_DIMENSION \in SmallDims
    /\ SetSelfInit(BoardFrom(EmptyGrid, "game"))
    /\ current_turn = white
    /\ winner = "None"
    /\ call = Call("Board", "None", FALSE, NoMove, None)
    /\ BotInit(NoBot)

\* CheckersBots of every depth asked for a move on the boards of explicit grids of men
NextGridSearch == BoardOfMen \/ GridSelect

SpecGridSearch == MenInit /\ [][NextGridSearch]_vars

(***************************************************************************)
(* Properties                                                              *)
(***************************************************************************)
\* C4: the move returned by select_move of every agent, for either side, is one of
\* the moves get_all_valid_moves lists for that side on the board it was handed
C4_SelectedMoveIsLegal ==
    call.op \in SelectOps =>
        /\ ~call.raised
        /\ LET legal == get_all_valid_moves(board, call.player)
           IN \E i \in 1 .. Len(legal) : legal[i] = call.move

\* the pieces and the history of the authoritative board
boardvars == <<board, num_black_pieces, num_black_kings, num_white_pieces, num_white_kings, moves>>

\* a step of a select_move call, or of the has_winner call of the game loop
QueryStep ==
    \/ search.pc # "idle"
    \/ search'.pc # "idle"
    \/ call'.op \in SelectOps \cup {"has_winner"}

\* C6: select_move of the CheckersBot and of the MCTSBot, get_all_valid_moves (which
\* is all that RandomBot.select_move calls) and has_winner leave the board that is
\* passed to them as it was
C6_BoardUnchanged == [][QueryStep => UNCHANGED boardvars]_vars

C6_Witness ==
    /\ call.op = "MCTSBot.select_move"
    /\ ~call.raised
    /\ mctsbot.tree.children # <<>>

\* C7: every node that a rollout visited has N >= 1 and 0 <= Q <= N
C7_VisitCounts ==
    \A id \in DOMAIN mctsbot.tree.N :
        /\ mctsbot.tree.N[id] >= 1
        /\ 0 <= Get(mctsbot.tree.Q, id)
        /\ Get(mctsbot.tree.Q, id) <= mctsbot.tree.N[id]

\* the pieces of a side found by scanning the grid
Scan(b, player) == Cardinality({pos \in Pos : b[pos] # None /\ b[pos].player = player})
ScanKings(b, player) ==
    Cardinality({pos \in Pos : b[pos] # None /\ b[pos].player = player /\ b[pos].king})

LastMove == moves[Len(moves)]

\* C1: in every state of a game played from the standard start with moves returned by
\* get_all_valid_moves, num_white_pieces and num_black_pieces equal the number of
\* pieces of that side on the grid.
C1_CountersEqualScan ==
    /\ num_white_pieces = Scan(board, white)
    /\ num_black_pieces = Scan(board, black)

\* a capture has just been made and the captured side still has a piece
C1_Witness ==
    /\ call.op = "make_move"
    /\ Len(call.move.captured) > 0
    /\ Scan(board, other(call.player)) > 0
    /\ C1_CountersEqualScan

\* C2: on every board and for either side, if the per-piece scan generates a capturing
\* move then get_all_valid_moves returns exactly the generated capturing moves, and
\* otherwise it returns every generated move.
C2_ForcedCapture ==
    \A player \in Player :
        LET generated == generated_moves(board, player)
            returned == get_all_valid_moves(board, player)
            Generated == {generated[i] : i \in 1 .. Len(generated)}
            Returned == {returned[i] : i \in 1 .. Len(returned)}
        IN IF \E move \in Generated : move.captured # <<>>
           THEN /\ \A move \in Returned : move.captured # <<>>
                /\ Returned = {move \in Generated : move.captured # <<>>}
           ELSE Returned = Generated

\* a side for which the scan generates a capture and a simple step
C2_Witness ==
    \E player \in Player :
        LET generated == generated_moves(board, player)
        IN /\ \E i \in 1 .. Len(generated) : generated[i].captured # <<>>
           /\ \E i \in 1 .. Len(generated) : generated[i].captured = <<>>
           /\ Len(get_all_valid_moves(board, player)) > 0

\* a side has lost in this state: no piece on the grid, or no legal move
Lost(player) ==
    Scan(board, player) = 0 \/ Len(get_all_valid_moves(board, player)) = 0

\* C3: has_winner returns a side only if that side's opponent has no piece or no legal
\* move, and returns a side (not None, not "Tie") whenever either side has no piece or
\* no legal move, also when a draw rule holds; the game loop's winner is that value.
C3_WinnerIffOpponentLost ==
    LET w == has_winner(Self)
    IN /\ w \in Player => Lost(other(w))
       /\ (Lost(white) \/ Lost(black)) => w \in Player
       /\ moves # <<>> => winner = w

\* a side wins because the opponent, who still has pieces, cannot move
C3_Witness ==
    /\ winner \in Player
    /\ Scan(board, other(winner)) > 0
    /\ Len(get_all_valid_moves(board, other(winner))) = 0

\* C5: make_move given a move whose `from` cell is empty or whose captured list names
\* pieces that are not on the board raises and never completes with counters that
\* differ from a scan of the grid.
C5_IllegalMoveRaises ==
    call.op = "make_move_illegal" =>
        /\ call.raised
        /\ num_white_pieces = Scan(board, white)
        /\ num_black_pieces = Scan(board, black)
        /\ num_white_kings = ScanKings(board, white)
        /\ num_black_kings = ScanKings(board, black)

\* the last k moves of the history hold no capture
NoCaptureInLast(k) ==
    \A i \in 1 .. k : moves[Len(moves) + 1 - i].captured = <<>>

\* C8: passive_game() is true exactly when the history holds at least
\* MAX_MOVES_WITHOUT_CAPTURE moves and none of the last MAX_MOVES_WITHOUT_CAPTURE
\* moves captured, for histories of every length.
C8_PassiveIffLastKQuiet ==
    passive_game(Self) <=>
        /\ Len(moves) >= MAX_MOVES_WITHOUT_CAPTURE
        /\ NoCaptureInLast(MAX_MOVES_WITHOUT_CAPTURE)

FromTo(move) == <<move.from, move.to>>

\* the last 12 moves are three repeats of one 4-move sub-sequence
ThreeRepeats(ms) ==
    /\ Len(ms) >= 12
    /\ \A k \in 1 .. 8 : FromTo(ms[Len(ms) + 1 - k]) = FromTo(ms[Len(ms) - 3 - k])

\* the moves a move of the window is changed into
ChangedMoves ==
    HistoryMoves \cup {Move(<<2, 1>>, <<1, 0>>, <<>>), Move(<<2, 1>>, <<0, 1>>, <<>>)}

\* C9: repetition_happened() is true exactly when the history holds at least 12 moves
\* and the last 12 are three repeats of one 4-move sub-sequence, and changing the
\* (from, to) of any one move of a repeating 12-move window makes it false.
C9_RepetitionIffThreeRepeats ==
    /\ repetition_happened(Self) <=> ThreeRepeats(moves)
    /\ repetition_happened(Self) =>
          \A k \in 1 .. 12 : \A move \in ChangedMoves :
              FromTo(move) # FromTo(moves[Len(moves) + 1 - k]) =>
                  ~repetition_happened(
                      [Self EXCEPT !.moves[Len(moves) + 1 - k] = move])

\* a history longer than 12 moves whose last 12 repeat a 4-move sub-sequence that
\* holds two different moves
C9_Witness ==
    /\ Len(moves) > 12
    /\ repetition_happened(Self)
    /\ FromTo(moves[Len(moves)]) # FromTo(moves[Len(moves) - 1])
    /\ FromTo(moves[1]) # FromTo(moves[5])

PromotionRow(player) == IF player = white THEN 0 ELSE BOARD_DIMENSION - 1

\* a make_move step: the history grows by the move made
MoveMade == moves' = Append(moves, moves'[Len(moves')])

\* C10: when make_move takes a non-king piece to its promotion row the piece is a king
\* afterwards and its side's king counter grows by exactly 1; a king arriving there
\* leaves the counter as it is; and no non-king ever stands on its promotion row.
C10_Promotion ==
    /\ [][MoveMade =>
            LET move == moves'[Len(moves')]
                piece == board[move.from]
            IN move.to[1] = PromotionRow(piece.player) =>
                  /\ board'[move.to].king
                  /\ board'[move.to].player = piece.player
                  /\ IF piece.player = white
                     THEN num_white_kings' =
                             num_white_kings + (IF piece.king THEN 0 ELSE 1)
                     ELSE num_black_kings' =
                             num_black_kings + (IF piece.king THEN 0 ELSE 1)]_vars
    /\ [](\A pos \in Pos :
            board[pos] # None /\ pos[1] = PromotionRow(board[pos].player)
                => board[pos].king)

\* a non-king white piece has just moved to row 0
C10_Witness ==
    /\ call.op = "make_move"
    /\ call.piece.player = white
    /\ ~call.piece.king
    /\ call.move.to[1] = 0
    /\ board[call.move.to].king
    /\ num_white_kings >= 1

\* most jumps of a capture chain looked for
MaxJumps == 3

\* a jump of q over one cell from p, and the cell jumped over
IsJump(p, q) == Abs(q[1] - p[1]) = 2 /\ Abs(q[2] - p[2]) = 2
Between(p, q) == <<(p[1] + q[1]) \div 2, (p[2] + q[2]) \div 2>>

\* the chains of at most n jumps that start with the positions in `chain`
RECURSIVE JumpChains(_, _)
JumpChains(chain, n) ==
    IF n = 0 THEN {chain}
    ELSE {chain} \cup UNION {JumpChains(Append(chain, q), n - 1) :
                                q \in {q \in Pos : IsJump(chain[Len(chain)], q)}}

\* `move` is well formed for `player` on grid b
WellFormed(b, player, move) ==
    /\ move.from \in Pos
    /\ b[move.from] # None
    /\ b[move.from].player = player
    /\ b[move.from].position = move.from
    /\ move.to \in Pos
    /\ b[move.to] = None
    /\ \A k \in 1 .. Len(move.captured) :
          /\ move.captured[k].player = other(player)
          /\ move.captured[k].position \in Pos
          /\ b[move.captured[k].position] = move.captured[k]
    /\ \A j, k \in 1 .. Len(move.captured) : j # k => move.captured[j] # move.captured[k]
    /\ move.captured # <<>> =>
          \E chain \in JumpChains(<<move.from>>, MaxJumps) :
              /\ chain[Len(chain)] = move.to
              /\ \A k \in 1 .. Len(move.captured) :
                    \E n \in 1 .. Len(chain) - 1 :
                        move.captured[k].position = Between(chain[n], chain[n + 1])

\* C11: every move get_all_valid_moves returns for a side starts on a piece of that
\* side, ends on an empty cell of the board, and lists as captured only pieces of the
\* opponent that stand on the board, each between two consecutive positions of a
\* jump chain from `from` to `to`, none of them twice.
C11_MovesWellFormed ==
    \A player \in Player :
        \A returned \in {get_all_valid_moves(board, player)} :
            \A i \in 1 .. Len(returned) : WellFormed(board, player, returned[i])

\* a side has a move that captures two pieces in one chain
C11_Witness ==
    \E player \in Player :
        \E returned \in {get_all_valid_moves(board, player)} :
            \E i \in 1 .. Len(returned) :
                /\ Len(returned[i].captured) = 2
                /\ WellFormed(board, player, returned[i])

\* the values Board.evaluate can give `player` for the board after `move`
EvaluateAfter(B, player, move) == evaluate(make_move(deepcopy(B), move), player)

\* no move of `legal` is sure to be evaluated higher than `move`
CanBeBest(B, player, legal, move) ==
    \E v \in EvaluateAfter(B, player, move) :
        \A j \in 1 .. Len(legal) : \E u \in EvaluateAfter(B, player, legal[j]) : u <= v

\* the board is not terminal and a CheckersBot has just returned from select_move
AfterCheckersBot ==
    /\ call.op = "CheckersBot.select_move"
    /\ has_winner(Self) = "None"

\* C12: select_move of a CheckersBot of depth 0 on a non-terminal board returns a
\* legal move of its side, and one whose resulting position has the highest static
\* evaluation.
C12_DepthZeroPicksBest ==
    (AfterCheckersBot /\ call.depth = 0) =>
        /\ ~call.raised
        /\ \E legal \in {get_all_valid_moves(board, call.player)} :
              \E i \in 1 .. Len(legal) :
                  /\ legal[i] = call.move
                  /\ CanBeBest(Self, call.player, legal, call.move)

\* C13: on a non-terminal board where the side of the CheckersBot has exactly one
\* legal move, select_move returns that move, for every depth from 0 on and on
\* every repeated call.
C13_SingleMoveReturned ==
    AfterCheckersBot =>
        \A legal \in {get_all_valid_moves(board, call.player)} :
            Len(legal) = 1 => ~call.raised /\ call.move = legal[1]

\* C14: on every Board, built by Board(grid) or reached from one by make_move,
\* num_white_kings and num_black_kings equal the number of kings of that side on the
\* grid and are never negative.
C14_KingCountersEqualScan ==
    /\ num_white_kings = ScanKings(board, white)
    /\ num_black_kings = ScanKings(board, black)
    /\ num_white_kings >= 0
    /\ num_black_kings >= 0

\* _simulate returns in this step
SimulateReturns == search.pc = "_simulate" /\ search'.pc # "_simulate"

\* C15: every call of _simulate terminates, given that a timer that is armed fires in
\* the end; it returns the reward of a terminal position, or 0 once r0 has set
\* time_check, and it never raises: every step of the playout finds a move to play.
C15_SimulateTerminates ==
    /\ (search.pc = "_simulate") ~> (search.pc = "_backpropagate")
    /\ [][SimulateReturns =>
             /\ search'.pc = "_backpropagate"
             /\ call' = call
             /\ \/ /\ is_terminal(search.node.board)
                   /\ search'.reward = reward(search.node.board)
                \/ /\ time_check
                   /\ search'.reward = 0]_vars

\* a playout that did not reach a terminal position was ended by the timer
C15_Witness ==
    /\ search.pc = "_backpropagate"
    /\ search.reward = 0
    /\ ~is_terminal(search.node.board)
    /\ search.node # search.path[Len(search.path)]
    /\ timer.latest = "fired"

\* the children recorded for the root of the select_move call made last
RootChildren == mctsbot.tree.children[<<mctsbot.searches>>]

Visits(n) == Get(mctsbot.tree.N, n.id)
Total(n) == Get(mctsbot.tree.Q, n.id)

\* n was visited and no visited child of the root has a greater average reward Q/N
MaximalVisited(n) ==
    /\ Visits(n) > 0
    /\ \A m \in RootChildren : Visits(m) > 0 => Total(m) * Visits(n) <= Total(n) * Visits(m)

\* C16: choose on a non-terminal root with recorded children returns a child whose
\* Q/N is greatest among the children with N > 0, and no child with N = 0 when some
\* child has N > 0.
C16_ChooseMaximal ==
    (call.op = "MCTSBot.select_move" /\ \E m \in RootChildren : Visits(m) > 0) =>
        /\ ~call.raised
        /\ \E n \in RootChildren : n.parentMove = call.move /\ MaximalVisited(n)

\* a move was chosen among two visited children of different average reward and a
\* child that was never visited
C16_Witness ==
    /\ call.op = "MCTSBot.select_move"
    /\ ~call.raised
    /\ \E n \in RootChildren : n.parentMove = call.move /\ MaximalVisited(n)
    /\ \E m \in RootChildren : Visits(m) = 0
    /\ \E m, n \in RootChildren :
          /\ Visits(m) > 0
          /\ Visits(n) > 0
          /\ Total(m) * Visits(n) < Total(n) * Visits(m)

\* C17: when choose is called on a non-terminal root that has no recorded children,
\* as with rollouts = 0, select_move returns a legal move of the acting side and does
\* not raise.
C17_UnexpandedRootFallback ==
    (/\ call.op = "MCTSBot.select_move"
     /\ <<mctsbot.searches>> \notin DOMAIN mctsbot.tree.children
     /\ ~is_terminal(board)) =>
        /\ ~call.raised
        /\ \E legal \in {get_all_valid_moves(board, mctsbot.player)} :
              \E i \in 1 .. Len(legal) : legal[i] = call.move

\* a select_move call of the MCTSBot has made its root and no rollout yet
SelectMoveStarts ==
    /\ call.op = "Board_State"
    /\ search.pc \in {"do_rollout", "choose"}
    /\ search.i = 0

\* C18: at the start of every select_move call of the MCTSBot its tree (children, N
\* and Q) is empty, and exactly `rollouts` do_rollout calls have been made when choose
\* is called.
C18_FreshTreePerMove ==
    /\ SelectMoveStarts => mctsbot.tree = MCTS
    /\ search.pc = "choose" => search.i = mctsbot.rollouts

\* has_winner has declared `loser` the loser although it has pieces: it has no legal move
LostForLackOfMoves(loser) ==
    /\ winner = other(loser)
    /\ Scan(board, loser) > 0
    /\ Len(get_all_valid_moves(board, loser)) = 0

\* C19: a side that has_winner declares the loser for having no legal move while it
\* has pieces is the side to move; the side that has just moved is never declared
\* the loser for lack of moves while the side to move has a legal move.
C19_LoserIsSideToMove ==
    \A loser \in Player :
        LostForLackOfMoves(loser) =>
            /\ loser = current_turn
            /\ ~(/\ call.op = "make_move"
                 /\ call.player = loser
                 /\ Len(get_all_valid_moves(board, other(loser))) > 0)

\* the cell of the standard layout at pos
StandardCell(pos) ==
    IF (pos[1] + pos[2]) % 2 = 1 /\ pos[1] < ROWS_OF_PIECES
    THEN [player |-> black, king |-> FALSE, position |-> pos]
    ELSE IF (pos[1] + pos[2]) % 2 = 1 /\ pos[1] >= BOARD_DIMENSION - ROWS_OF_PIECES
    THEN [player |-> white, king |-> FALSE, position |-> pos]
    ELSE None

\* C20: Board() yields an N x N grid with non-king black pieces on the cells with
\* (row + col) odd of the first ROWS_OF_PIECES rows, non-king white pieces on those of
\* the last ROWS_OF_PIECES rows and every other cell empty; the piece counters count
\* them, 12 a side for N = 8 and 3 rows; the king counters are 0 and the history is
\* empty.
C20_StartingLayout ==
    call.op = "Board" =>
        /\ DOMAIN board = (0 .. BOARD_DIMENSION - 1) \X (0 .. BOARD_DIMENSION - 1)
        /\ \A pos \in DOMAIN board : board[pos] = StandardCell(pos)
        /\ num_black_pieces = Scan(board, black)
        /\ num_white_pieces = Scan(board, white)
        /\ (BOARD_DIMENSION = 8 /\ ROWS_OF_PIECES = 3) =>
              num_black_pieces = 12 /\ num_white_pieces = 12
        /\ num_black_kings = 0
        /\ num_white_kings = 0
        /\ moves = <<>>

\* the new 8x8 board with three rows of pieces a side
C20_Witness ==
    /\ call.op = "Board"
    /\ BOARD_DIMENSION = 8
    /\ ROWS_OF_PIECES = 3
    /\ num_black_pieces = 12
    /\ num_white_pieces = 12
    /\ board[<<0, 1>>] = Piece(<<0, 1>>, black)
    /\ board[<<7, 0>>] = Piece(<<7, 0>>, white)
    /\ board[<<3, 0>>] = None


\* the index pairs get_all_valid_moves(player) reads on grid b
MovesReads(b, player) ==
    UNION {UNION {ValidMovesReads(b, pieces[i]) : i \in 1 .. Len(pieces)}
           : pieces \in {get_all_pieces(b, player)}}

\* C21: get_all_valid_moves completes for every board and either side, with pieces on
\* edge rows and columns and chains that reach an edge: every grid cell it reads is
\* inside [0, N) x [0, N), and it returns a list, the empty one for a side without a
\* piece.
C21_ReadsInsideGrid ==
    \A player \in Player :
        /\ MovesReads(board, player) \subseteq (0 .. BOARD_DIMENSION - 1) \X (0 .. BOARD_DIMENSION - 1)
        /\ Len(get_all_valid_moves(board, player)) >= 0
        /\ Scan(board, player) = 0 => get_all_valid_moves(board, player) = <<>>

\* a piece on an edge row has a chain of two jumps that ends on an edge row, and the
\* scan has read cells of both edge columns
C21_Witness ==
    \E player \in Player :
        /\ \E returned \in {get_all_valid_moves(board, player)} :
              \E i \in 1 .. Len(returned) :
                  /\ Len(returned[i].captured) = 2
                  /\ returned[i].from[1] \in {0, BOARD_DIMENSION - 1}
                  /\ returned[i].to[1] \in {0, BOARD_DIMENSION - 1}
        /\ \E pos \in MovesReads(board, player) : pos[2] = 0
        /\ \E pos \in MovesReads(board, player) : pos[2] = BOARD_DIMENSION - 1
        /\ MovesReads(board, player) \subseteq Pos


\* the cells of the pieces that `move` lists as captured
CapturedCells(move) == {move.captured[k].position : k \in 1 .. Len(move.captured)}

\* every king of grid b is a king of its side on grid c, the grid after `move`: on the
\* cell it moved to when it is the piece that moved, and on its own cell when it was
\* neither moved nor captured
KingsKept(b, c, move) ==
    \A pos \in Pos :
        (b[pos] # None /\ b[pos].king) =>
            IF pos = move.from
            THEN c[move.to].king /\ c[move.to].player = b[pos].player
            ELSE pos \in CapturedCells(move) \/ c[pos] = b[pos]

\* C22: a piece whose king flag is set keeps it in every later state of its board:
\* through every make_move of the game, and on every deep copy of the board on which
\* a move of either side is made.
C22_KingStaysKing ==
    /\ [][IF MoveMade THEN KingsKept(board, board', moves'[Len(moves')])
                      ELSE \A pos \in Pos : board[pos].king => board'[pos] = board[pos]]_vars
    /\ [](\A player \in Player :
            \A options \in {get_all_valid_moves(board, player)} :
                \A i \in 1 .. Len(options) :
                    KingsKept(board, make_move(deepcopy(Self), options[i]).board, options[i]))

\* a king has just moved off its promotion row and is a king on the cell it moved to,
\* while a second king stands by
C22_Witness ==
    /\ call.op = "make_move"
    /\ call.piece.king
    /\ call.move.to[1] # PromotionRow(call.piece.player)
    /\ board[call.move.to].king
    /\ \E pos \in Pos : pos # call.move.to /\ board[pos].king


\* the cells jumped over along a chain of positions
JumpedOver(chain) == {Between(chain[n], chain[n + 1]) : n \in 1 .. Len(chain) - 1}

\* `move` lists one captured piece per jump: a simple step changes the row by 1, and a
\* move that changes the row by 2k lists exactly the k pieces of a chain of k jumps
\* from `from` to `to`
OnePerJump(move) ==
    IF move.captured = <<>>
    THEN Abs(move.to[1] - move.from[1]) = 1
    ELSE /\ Abs(move.to[1] - move.from[1]) = 2 * Len(move.captured)
         /\ \E chain \in JumpChains(<<move.from>>, MaxJumps) :
               /\ chain[Len(chain)] = move.to
               /\ Len(chain) - 1 = Len(move.captured)
               /\ Cardinality(CapturedCells(move)) = Len(move.captured)
               /\ CapturedCells(move) = JumpedOver(chain)

\* C23: every move get_all_valid_moves returns lists exactly one captured piece per
\* jump of its chain, a simple step none and a chain of k jumps (row changed by 2k)
\* the k pieces jumped over, also for three jumps; so that the board after the move
\* holds none of the pieces jumped over.
C23_CapturedPerJump ==
    \A player \in Player :
        \A returned \in {get_all_valid_moves(board, player)} :
            \A i \in 1 .. Len(returned) :
                /\ OnePerJump(returned[i])
                /\ Scan(make_move(deepcopy(Self), returned[i]).board, other(player))
                      = Scan(board, other(player))
                        - Abs(returned[i].to[1] - returned[i].from[1]) \div 2


\* the chains of two jumps open to the piece on cell p0 of grid b when a chain may go
\* on in any of the four diagonal directions: both landing cells are empty and the two
\* cells jumped over hold two pieces of the opponent
TwoJumps(b, p0) ==
    {chain \in JumpChains(<<p0>>, 2) :
        /\ Len(chain) = 3
        /\ b[chain[2]] = None
        /\ b[chain[3]] = None
        /\ Between(chain[1], chain[2]) # Between(chain[2], chain[3])
        /\ \A cell \in JumpedOver(chain) :
              b[cell] # None /\ b[cell].player = other(b[p0].player)}

\* C24: move generation continues a capture from its landing cell in all four diagonal
\* directions: a king that can jump one piece of the opponent and then a second one
\* from the landing cell, in the same row direction or in the opposite one, is offered
\* the move that captures both.
C24_ChainInAllDirections ==
    \A pos \in Pos :
        (board[pos] # None /\ board[pos].king) =>
            \A chain \in TwoJumps(board, pos) :
                \E returned \in {get_all_valid_moves(board, board[pos].player)} :
                    \E i \in 1 .. Len(returned) :
                        /\ returned[i].from = pos
                        /\ returned[i].to = chain[3]
                        /\ Len(returned[i].captured) = 2


\* the board turned by 180 degrees with the colours swapped
Rotated(pos) == <<BOARD_DIMENSION - 1 - pos[1], BOARD_DIMENSION - 1 - pos[2]>>

RotatedPiece(piece) ==
    IF piece = None THEN None
    ELSE [player |-> other(piece.player), king |-> piece.king,
          position |-> Rotated(piece.position)]

RotatedGrid(b) == [pos \in Pos |-> RotatedPiece(b[Rotated(pos)])]

\* a move as its from, its to and the set of the pieces it captures
MoveSet(returned) ==
    {[from |-> returned[i].from, to |-> returned[i].to,
      captured |-> {returned[i].captured[k] : k \in 1 .. Len(returned[i].captured)}]
     : i \in 1 .. Len(returned)}

RotatedMoves(moveSet) ==
    {[from |-> Rotated(move.from), to |-> Rotated(move.to),
      captured |-> {RotatedPiece(piece) : piece \in move.captured}] : move \in moveSet}

\* C25: turning the board by 180 degrees and swapping the colours maps the moves of
\* get_all_valid_moves(white) one-to-one onto the moves of get_all_valid_moves(black)
\* on the turned board, with from and to turned and the corresponding pieces captured,
\* moves of several jumps that end on the promotion row included.
C25_RotationSymmetry ==
    RotatedMoves(MoveSet(get_all_valid_moves(board, white)))
        = MoveSet(get_all_valid_moves(RotatedGrid(board), black))


\* do_rollout calls _simulate in this step: the timer of the call is started
SimulateStarts == search.pc = "do_rollout" /\ search'.pc = "_simulate"

\* _simulate returns the timeout reward in this step: its node is not terminal
TimeoutReturn == SimulateReturns /\ search'.pc = "_backpropagate" /\ ~is_terminal(search.node.board)

\* C26: with the rollouts run one after another and r0 run by the timer's thread at
\* any moment, _simulate returns the timeout reward only if the timer that this call
\* started has fired; time_check is false when a _simulate call starts, and no
\* timer started by an earlier rollout is pending then.
C26_TimeoutIsOwnTimer ==
    /\ [][TimeoutReturn => timer.latest = "fired"]_vars
    /\ [][SimulateStarts => (~time_check /\ timer.latest # "armed" /\ timer.stale = 0)]_vars


\* greatest depth of the searches compared with minimax
MaxFixedDepth == 3

\* the ways random.randint is fixed in the searches compared with minimax
FixedDraws == {"zero", "one", "parity"}

\* the greatest (is_max) or least value of a sequence of values
SeqBest(is_max, values) ==
    CHOOSE v \in {values[i] : i \in 1 .. Len(values)} :
        \A i \in 1 .. Len(values) : IF is_max THEN values[i] <= v ELSE values[i] >= v

\* depth-limited minimax without pruning: the value of board B, on which has_winner
\* returns w, and the values of the boards after each of `candidates`
RECURSIVE MinimaxAt(_, _, _, _, _, _)
Minimax(bot, B, is_max, current_player, depth) ==
    MinimaxAt(bot, B, is_max, current_player, depth, has_winner(B))

ChildValues(bot, B, is_max, current_player, depth, candidates) ==
    [i \in 1 .. Len(candidates) |->
        Minimax(bot, make_move(deepcopy(B), candidates[i]), ~is_max, other(current_player),
                depth + 1)]

MinimaxAt(bot, B, is_max, current_player, depth, w) ==
    IF w = bot.player THEN Halves(1000 - depth)
    ELSE IF w = other(bot.player) THEN Halves(-1000 + depth)
    ELSE IF w = "Tie" THEN Halves(0 + depth)
    ELSE IF depth = bot.depth THEN CHOOSE value \in _evaluate(bot, B) : TRUE
    ELSE SeqBest(is_max, ChildValues(bot, B, is_max, current_player, depth,
                                     get_all_valid_moves(B.board, current_player)))


\* the first of `candidates` whose value is the greatest, with that value
FirstBest(candidates, values) ==
    LET i == CHOOSE i \in 1 .. Len(values) :
                 /\ values[i] = SeqBest(TRUE, values)
                 /\ \A j \in 1 .. i - 1 : values[j] < values[i]
    IN [move |-> candidates[i], value |-> values[i]]

\* the move and the root value of minimax for the side `bot` plays on board B
MinimaxChoice(bot, B, candidates) ==
    FirstBest(candidates, ChildValues(bot, B, TRUE, bot.player, 0, candidates))

\* the moves and root values alpha_beta_search can return to select_move
AlphaBetaChoice(bot, B) ==
    {[move |-> choice.move, value |-> choice.value] :
        choice \in alpha_beta_search(bot, B, TRUE, bot.player, 0, Halves(-1000), Halves(1000))}

\* the searches compared: either side, every depth from 1 on, every fixed draw
FixedBots ==
    {FixedBot(player, depth, randint) :
        player \in Player, depth \in 1 .. MaxFixedDepth, randint \in FixedDraws}

\* C27: with the random term of the evaluation fixed, select_move of a CheckersBot
\* returns the move and the root value of depth-limited minimax without pruning over
\* the same candidates, the first move of the greatest value.
C27_PruningKeepsRootResult ==
    has_winner(Self) = "None" =>
        \A bot \in FixedBots :
            AlphaBetaChoice(bot, Self)
                = {MinimaxChoice(bot, Self, get_all_valid_moves(board, bot.player))}

\* the value alpha_beta_search returns for the board after candidate i, searched with
\* the greatest minimax value of the candidates before it as alpha, is not the minimax
\* value of that board: a reply was pruned
PrunedAt(bot, B, candidates, values, i) ==
    \E found \in alpha_beta_search(bot, make_move(deepcopy(B), candidates[i]), FALSE,
                                   other(bot.player), 1,
                                   SeqBest(TRUE, SubSeq(values, 1, i - 1)), Halves(1000)) :
        found.value # values[i]

\* a search in which a reply is pruned returns the choice of minimax
C27_Witness ==
    /\ has_winner(Self) = "None"
    /\ \E bot \in FixedBots :
          \E candidates \in {get_all_valid_moves(board, bot.player)} :
              /\ AlphaBetaChoice(bot, Self) = {MinimaxChoice(bot, Self, candidates)}
              /\ \E values \in {ChildValues(bot, Self, TRUE, bot.player, 0, candidates)} :
                    \E i \in 2 .. Len(candidates) : PrunedAt(bot, Self, candidates, values, i)


\* the material term for `player`: 10 for each of its pieces and 10 more for each of
\* its kings, less the same for the opponent
Material(player) ==
    Halves(10 * Scan(board, player) + 10 * ScanKings(board, player)
           - 10 * Scan(board, other(player)) - 10 * ScanKings(board, other(player)))

\* C28: Board.evaluate(side) is, apart from the random term of 0 or 1, the material
\* term plus the positional score of the side less the positional score of the
\* opponent.
C28_EvaluateIsMaterialPlusPosition ==
    \A player \in Player :
        \A value \in evaluate(Self, player) :
            \E noise \in {0, 1} :
                value = Material(player)
                        + _evaluate_pieces_position(board, player)
                        - _evaluate_pieces_position(board, other(player))
                        + Halves(noise)


\* _backpropagate runs in this step
Backpropagates == search.pc = "_backpropagate" /\ search'.pc # "_backpropagate"

\* what the step adds to Q[node]
AddedQ(node) == Get(mctsbot'.tree.Q, node.id) - Get(mctsbot.tree.Q, node.id)

\* the result of a playout that ended with reward r for the agent: 1 when its side
\* has won and 0 when it has lost (Board_State.reward is 1 for a win of white and -1
\* for a win of black)
AgentResult(r) == IF (r = 1) = (mctsbot.player = white) THEN 1 ELSE 0

\* C29: for every rollout whose path passes through a child c of the root, what is
\* added to Q[c] is the result of the playout for the searching agent, 1 when it has
\* won and 0 when it has lost, whatever the length of the path and whether or not
\* its leaf is terminal.
C29_ChildGetsAgentResult ==
    [][(Backpropagates /\ Len(search.path) >= 2 /\ search.reward \in {1, -1}) =>
          AddedQ(search.path[2]) = AgentResult(search.reward)]_vars


\* the identities of the nodes on the selected path
PathIds == {search.path[k].id : k \in 1 .. Len(search.path)}

\* C30: each do_rollout adds exactly 1 to N of every node of the selected path and of
\* no other node; what it adds to Q of consecutive nodes of the path alternates
\* between r' and 1 - r' from one ply to the next, and it changes Q of no other
\* node; N[root] is the number of do_rollout calls made from the root.
C30_BackpropagateFrame ==
    /\ [][Backpropagates =>
            /\ \A id \in (DOMAIN mctsbot.tree.N) \cup (DOMAIN mctsbot'.tree.N) :
                  Get(mctsbot'.tree.N, id)
                      = Get(mctsbot.tree.N, id) + (IF id \in PathIds THEN 1 ELSE 0)
            /\ \A id \in ((DOMAIN mctsbot.tree.Q) \cup (DOMAIN mctsbot'.tree.Q)) \ PathIds :
                  Get(mctsbot'.tree.Q, id) = Get(mctsbot.tree.Q, id)
            /\ \A k \in 1 .. Len(search.path) - 1 :
                  AddedQ(search.path[k]) = 1 - AddedQ(search.path[k + 1])]_vars
    /\ [](search.pc \in {"do_rollout", "choose"} =>
            Get(mctsbot.tree.N, search.root.id) = search.i)

(***************************************************************************)
(* alpha_beta_search on the boards of a game, called at every recursion    *)
(* depth d up to the configured depth of the bot                           *)
(***************************************************************************)
SearchBots == {CheckersBot(player, depth) : player \in Player, depth \in 0 .. MaxDepth}

\* what alpha_beta_search(board, is_max, current_player, d, -1000, 1000) can return on
\* the board of the game, for every is_max and current_player
ReturnedAt(bot, d) ==
    UNION {alpha_beta_search(bot, Self, is_max, current_player, d,
                             Halves(-1000), Halves(1000))
           : is_max \in BOOLEAN, current_player \in Player}

\* the node is one at which the search returns without trying a move
Leaf(bot, d) == has_winner(Self) # "None" \/ d = bot.depth

\* C31: at recursion depth d alpha_beta_search returns the value 1000 - d on a board
\* won by the bot's side, -1000 + d on a board won by the opponent and d on a tie,
\* whether or not d is the configured depth, and the evaluator's score when d is the
\* configured depth and there is no winner; so a win at a smaller depth scores
\* strictly higher than a win at a greater depth, and a loss at a greater depth
\* strictly higher than a loss at a smaller one.
C31_TerminalValues ==
    \A w \in {has_winner(Self)} : \A bot \in SearchBots : \A d \in 0 .. bot.depth :
        w # "None" \/ d = bot.depth =>
            \A returned \in {ReturnedAt(bot, d)} :
               /\ w = bot.player =>
                      returned = {Choice(last_move(Self), Halves(1000 - d), d)}
               /\ w = other(bot.player) =>
                      returned = {Choice(last_move(Self), Halves(-1000 + d), d)}
               /\ w = "Tie" => returned = {Choice(last_move(Self), Halves(d), d)}
               /\ w = "None" =>
                      returned = {Choice(last_move(Self), value, d) :
                                    value \in evaluate(Self, bot.player)}
               /\ w \in Player =>
                      \A e \in d + 1 .. bot.depth : \A sooner \in returned :
                          \A later \in ReturnedAt(bot, e) :
                              /\ w = bot.player => sooner.value > later.value
                              /\ w = other(bot.player) => later.value > sooner.value

\* a game has been won, which is a win for the bots of one side and a loss for the
\* bots of the other, and the configured depth leaves room for two recursion depths
C31_Witness ==
    /\ has_winner(Self) \in Player
    /\ Len(moves) > 0
    /\ \E bot \in SearchBots : bot.depth = MaxDepth /\ Leaf(bot, 0) /\ Leaf(bot, MaxDepth)

\* a side that has pieces on the grid and no legal move
Blocked(B, player) ==
    /\ Len(get_all_pieces(B.board, player)) > 0
    /\ Len(get_all_valid_moves(B.board, player)) = 0

\* C32: on a board without a winner both sides have a legal move, so the loop of
\* alpha_beta_search never runs over an empty candidate list: select_move of a
\* CheckersBot of depth 1 or more, called on a board without a winner, returns the
\* move of a Choice, neither None nor the failure on a result that is None.
C32_SearchFindsCandidates ==
    /\ \A w \in {has_winner(Self)} :
          w = "None" => \A player \in Player : Len(get_all_valid_moves(board, player)) > 0
    /\ (call.op = "CheckersBot.select_move" /\ call.depth >= 1) =>
          /\ ~call.raised
          /\ call.move # NoMove
          /\ \A choice \in alpha_beta_search(CheckersBot(call.player, call.depth), Self, TRUE,
                                             call.player, 0, Halves(-1000), Halves(1000)) :
                choice.depth >= 0

\* a search of depth 1 or more has returned, and one of the boards it tried leaves
\* the opponent, who is to move there, with pieces and without a legal move
C32_Witness ==
    /\ call.op = "CheckersBot.select_move"
    /\ call.depth >= 1
    /\ \E B \in AlphaBetaBoards(CheckersBot(call.player, call.depth), Self) :
          Blocked(B, other(call.player))

\* the number of moves at the end of the history that captured nothing
RECURSIVE QuietTail(_)
QuietTail(ms) ==
    IF Len(ms) = 0 \/ ms[Len(ms)].captured # <<>> THEN 0
    ELSE 1 + QuietTail(SubSeq(ms, 1, Len(ms) - 1))

\* C33: a game played from the standard start by agents that return legal moves
\* ends, has_winner returning a winner or a tie after finitely many moves, and while
\* the loop runs the history never ends with more than MAX_MOVES_WITHOUT_CAPTURE
\* moves in a row that captured nothing.
C33_GameEnds ==
    /\ <>(winner # "None")
    /\ [](winner = "None" => QuietTail(moves) <= MAX_MOVES_WITHOUT_CAPTURE)

\* a game has ended in a tie by the passive-game rule
C33_Witness ==
    /\ winner = "Tie"
    /\ passive_game(Self)
    /\ QuietTail(moves) >= MAX_MOVES_WITHOUT_CAPTURE - 1

\* the grids reached from grid b by one legal move of `player`
OnePly(b, player) ==
    UNION {{make_move(BoardFrom(b, "own"), options[i]).board : i \in 1 .. Len(options)}
           : options \in {get_all_valid_moves(b, player)}}

\* the grids of the recorded children of `node` in tree t
ChildGrids(t, node) == {child.board : child \in t.children[node.id]}

\* a step of do_rollout in which _expand records the children of the selected node
Expands ==
    /\ search.pc = "do_rollout"
    /\ search'.pc = "_simulate"
    /\ search'.node.id \notin DOMAIN mctsbot.tree.children

\* C34: after _expand(node), children[node] holds one child per legal move of the
\* side to move at node, the positions those moves lead to, and the recorded children
\* of each of them are the positions after one legal reply of the other side,
\* whichever side the agent plays.  The agent is asked for a move on its own turn
\* and the selected node is an even number of plies below the root, so the side to
\* move at the node is the agent's.
C34_ChildrenAreOnePly ==
    [][Expands =>
          \A node \in {search'.node}, t \in {mctsbot'.tree} :
              /\ ChildGrids(t, node) = OnePly(node.board, mctsbot.player)
              /\ Cardinality(t.children[node.id])
                     = Len(get_all_valid_moves(node.board, mctsbot.player))
              /\ \A child \in t.children[node.id] :
                     ChildGrids(t, child) = OnePly(child.board, other(mctsbot.player))]_vars

\* C35: _uct_select is only called on a node with N >= 1, so the logarithm of its
\* visit count is defined and not negative, and the formula
\* Q/N + c * sqrt(ln(N_parent)/N_child) is evaluated only for children with N >= 1,
\* a child with N = 0 getting the fixed priority 999.
C35_UctOnVisitedNodes ==
    search.pc = "do_rollout" =>
        \A t \in {mctsbot.tree} : \A node \in UctCalls(t, search.root) :
            /\ Get(t.N, node.id) >= 1
            /\ \A n \in t.children[node.id] :
                  IF Get(t.N, n.id) = 0 THEN uct(t, node, n) = 999 * 1000000
                  ELSE /\ Get(t.N, n.id) >= 1
                       /\ uct(t, node, n)
                              = (Get(t.Q, n.id) * 1000000) \div Get(t.N, n.id)
                                + ExploreMicro[Get(t.N, node.id)][Get(t.N, n.id)]

\* a rollout is about to call _uct_select on a node below the root, and on a node
\* one of whose children was visited
C35_Witness ==
    /\ search.pc = "do_rollout"
    /\ \E t \in {mctsbot.tree} :
          /\ \E node \in UctCalls(t, search.root) : node.id # search.root.id
          /\ \E node \in UctCalls(t, search.root) :
                \E n \in t.children[node.id] : Get(t.N, n.id) >= 1

\* the history has grown by one move, appended at its end
Appended == Len(moves') = Len(moves) + 1 /\ SubSeq(moves', 1, Len(moves)) = moves

\* the piece `piece` as make_move leaves it on the cell `to`: the same piece with its
\* position field set to `to`, crowned when it reaches its promotion row
Arrived(piece, to) ==
    LET moved == [piece EXCEPT !.position = to]
    IN IF to[1] = PromotionRow(piece.player) THEN make_king(moved) ELSE moved

\* C36: make_move of a legal move empties the `from` cell, puts the piece that stood
\* there on the `to` cell with its position field set to `to`, empties the cells of
\* the captured pieces and leaves every other cell and piece as it was; the history
\* grows by that one move, appended at its end.
C36_MakeMoveFrame ==
    [][Appended =>
          \A move \in {moves'[Len(moves')]} :
              /\ move = call'.move
              /\ moves' = Append(moves, move)
              /\ board'[move.from] = None
              /\ board'[move.to] = Arrived(board[move.from], move.to)
              /\ \A pos \in CapturedCells(move) : board'[pos] = None
              /\ \A pos \in Pos \ ({move.from, move.to} \cup CapturedCells(move)) :
                    board'[pos] = board[pos]]_vars

\* a capture has just been made on a board that holds a piece which neither moved nor
\* was captured
C36_Witness ==
    /\ Len(moves) = 1
    /\ moves[1].captured # <<>>
    /\ \E pos \in Pos \ {moves[1].to} : board[pos] # None

\* the cells _get_valid_moves offers to the piece on `pos`
Offered(pos) ==
    UNION {{valid[i][1] : i \in 1 .. Len(valid)}
           : valid \in {_get_valid_moves(board, board[pos])}}

\* the cells a piece on `pos` reaches in the diagonal direction <<dr, dc>> by one step
\* to an empty cell, or by one jump over a piece of the opponent to an empty cell
StepOrJump(pos, dr, dc) ==
    LET near == <<pos[1] + dr, pos[2] + dc>>
        far == <<pos[1] + 2 * dr, pos[2] + 2 * dc>>
    IN IF near \notin Pos THEN {}
       ELSE IF board[near] = None THEN {near}
       ELSE IF board[near].player # board[pos].player /\ far \in Pos /\ board[far] = None
       THEN {far}
       ELSE {}

\* C37: every move returned for a white piece that is not a king ends on a lower row
\* than it starts on, every move returned for a black piece that is not a king on a
\* higher row, and a king is offered the moves of both row directions: every step
\* and every jump in each of the four diagonal directions.
C37_MenForwardKingsBoth ==
    \A pos \in Pos :
        board[pos] # None =>
            /\ (~board[pos].king /\ board[pos].player = white) =>
                  \A to \in Offered(pos) : to[1] < pos[1]
            /\ (~board[pos].king /\ board[pos].player = black) =>
                  \A to \in Offered(pos) : to[1] > pos[1]
            /\ \A player \in Player : \A returned \in {get_all_valid_moves(board, player)} :
                  \A i \in 1 .. Len(returned) :
                      (returned[i].from = pos /\ ~board[pos].king) =>
                          IF player = white THEN returned[i].to[1] < pos[1]
                                            ELSE returned[i].to[1] > pos[1]
            /\ board[pos].king =>
                  \A dr \in {-1, 1}, dc \in {-1, 1} : StepOrJump(pos, dr, dc) \subseteq Offered(pos)

\* a king that can go up and down, and a piece that is not a king and can move
C37_Witness ==
    \E kpos \in Pos, mpos \in Pos :
        /\ board[kpos] # None /\ board[kpos].king
        /\ \E dc \in {-1, 1} : StepOrJump(kpos, -1, dc) # {}
        /\ \E dc \in {-1, 1} : StepOrJump(kpos, 1, dc) # {}
        /\ board[mpos] # None /\ ~board[mpos].king
        /\ Offered(mpos) # {}

\* the node objects the tree of the agent holds, and the root of the search in progress
TreeNodes ==
    UNION {mctsbot.tree.children[id] : id \in DOMAIN mctsbot.tree.children}
        \cup (IF search.pc = "idle" THEN {} ELSE {search.root})

\* both nodes hold the same pieces, side and king flag, on the same cells
SameContent(m, n) ==
    \A pos \in Pos :
        IF m.board[pos] = None THEN n.board[pos] = None
        ELSE /\ n.board[pos] # None
             /\ m.board[pos].player = n.board[pos].player
             /\ m.board[pos].king = n.board[pos].king

\* C38: the nodes of the MCTS tree are keyed by the content of their boards: two
\* nodes whose boards hold the same pieces on the same cells are one key of children,
\* N and Q, so a position reached a second time, in the same search or as the root of
\* a later one, has the statistics recorded for it before.
C38_KeyedByContent ==
    \A m \in TreeNodes, n \in TreeNodes : SameContent(m, n) => m.id = n.id

====
